---- MODULE Spec2Model ----
(***************************************************************************)
(* A model of the untron-intents relayer: the per-chain event poller and   *)
(* the intent processor of relayer/polling/blockchain_listener.py, the     *)
(* ledger of relayer/database/models.py, and the /resolve endpoint with    *)
(* its case-fix tasks of relayer/endpoints.py.                             *)
(*                                                                         *)
(* Every `await` of the source is a step boundary: between two steps       *)
(* another task may run and the process may be stopped and restarted.      *)
(* The chain nodes, the Tron node, the case-fix binary and the file system *)
(* are the environment: each call to them succeeds or fails by a           *)
(* nondeterministic choice.                                                *)
(***************************************************************************)
EXTENDS Integers, Sequences, FiniteSets, TLC

(***************************************************************************)
(* Bounds of the model.                                                    *)
(***************************************************************************)
\* highest block number the environment mines on its own
MaxHead == 2
\* number of payouts the Tron node accepts; further broadcasts are refused
MaxPayouts == 2
\* number of intron() transactions the EVM node mines; further ones revert
MaxIntrons == 1
\* number of /resolve requests the server receives
NumRequests == 3
\* largest amount is_profitable is called with on its own
MaxAmount == 60
\* largest gap between watermark and head, in chunks, of the chunk-loop specification
MaxChunks == 3
\* EVM calls (claim or intron) one chain's poller makes in the account specification
MaxCalls == 2

(***************************************************************************)
(* Program constants and configuration data.                               *)
(***************************************************************************)
\* blockchain_listener.py:204
chunk_size == 1000

\* the chain names a CONFIG["chains"] may hold
ChainNames == {"c1", "c2", "c3"}

\* token addresses as they appear in the configuration and in logs
Lower(a) ==
    CASE a = "0xAA" -> "0xaa"
      [] a = "0xBB" -> "0xbb"
      [] OTHER -> a

\* CONFIG["chains"][..]["tokens"]: symbol -> address, static_fee, percentage_fee_bps
\* (static_fee is a string of digits in the file; int() gives its value)
Tokens(chain) ==
    CASE chain = "c1" ->
           {[symbol |-> "USDT", address |-> "0xAA", static_fee |-> 50, percentage_fee_bps |-> 0]}
      [] chain = "c3" ->
           {[symbol |-> "USDT", address |-> "0xAA", static_fee |-> 0, percentage_fee_bps |-> 10000],
            [symbol |-> "USDC", address |-> "0xBB", static_fee |-> 3, percentage_fee_bps |-> 250]}
      [] OTHER ->
           {[symbol |-> "USDT", address |-> "0xAA", static_fee |-> 10, percentage_fee_bps |-> 100]}

\* the lower-cased Tron addresses /resolve is asked for, and what the case-fix
\* binary prints for each when it succeeds
Addresses == {"taddr1", "taddr2"}
Canonical(a) == IF a = "taddr1" THEN "TAddr1" ELSE "TAddr2"

\* factory.generateReceiverAddress(tron_bytes): a pure function of the Tron address
ReceiverAddress(tron) == IF tron = "TAddr1" THEN "0xr1" ELSE "0xr2"

Requests == 1..NumRequests

\* the receiver row the poller specifications start with
KnownReceiver == [id |-> 1, eth_address |-> "0xr1", tron_address |-> "TAddr1"]

(***************************************************************************)
(* The environment's chains.  A log is a record                            *)
(*   chain, block, kind ("order" | "transfer"), tx (transaction hash),     *)
(*   to (Tron recipient of an order, EVM recipient of a transfer),         *)
(*   token, input (inputAmount / transferred value), output (outputAmount) *)
(* Transaction hashes are numbers: those of the logs below, and IntronHash  *)
(* for the k-th intron() transaction that settles the transfer of hash h.  *)
(* Chains c2 and c3 each hold a log of the same transaction hash (a signed *)
(* transaction without chain id mined on both).                            *)
(***************************************************************************)
IntronHash(h, k) == 100 + 10 * h + k

\* the txid of the k-th accepted payout for the trigger of hash h
TronTxid(h, k) == 10 * h + k

StaticLogs ==
    { [chain |-> "c1", block |-> 1, kind |-> "order", tx |-> 1, to |-> "TAddr9",
       token |-> "0xaa", input |-> 1000, output |-> 960],
      [chain |-> "c1", block |-> 1, kind |-> "transfer", tx |-> 2, to |-> "0xr1",
       token |-> "0xAA", input |-> 1000, output |-> 0],
      [chain |-> "c1", block |-> 2, kind |-> "order", tx |-> 3, to |-> "TAddr9",
       token |-> "0xaa", input |-> 1000, output |-> 900],
      [chain |-> "c2", block |-> 1, kind |-> "order", tx |-> 4, to |-> "TAddr9",
       token |-> "0xaa", input |-> 1000, output |-> 900],
      [chain |-> "c3", block |-> 1, kind |-> "order", tx |-> 4, to |-> "TAddr9",
       token |-> "0xaa", input |-> 1000, output |-> 400] }

\* values recommendedOutputAmount(input) may return
Quotes == {900, 995}

NoRow == [eth_tx_hash |-> 0, tron_tx_hash |-> 0, source |-> "none", is_claimed |-> FALSE]
NoProbe == [chain |-> "none", token |-> "none", input |-> 0, output |-> 0,
            done |-> FALSE, result |-> FALSE]
NoWire == [st |-> "off", json |-> FALSE, has_data |-> FALSE, data |-> <<>>, domain |-> <<>>,
          lowercased |-> <<>>, fixed |-> <<>>, cancelled |-> FALSE, status |-> 0,
          response |-> <<>>]
NoCall == [call |-> "idle", kind |-> "none", nonce |-> 0, id |-> 0, calls |-> 0,
           mined |-> 0, pending |-> {}, sent |-> {}, receipts |-> {}]
NoEvm == [c \in ChainNames |-> NoCall]
NoLog == [chain |-> "none", block |-> 0, kind |-> "none", tx |-> 0, to |-> "none",
          token |-> "none", input |-> 0, output |-> 0]

VARIABLES
    config_chains,      \* the names in CONFIG["chains"]
    head,               \* chain -> current block number of the node
    intron_txs,         \* mined intron() transactions: tx, trigger, chain, block, input, output
    tron_txs,           \* accepted Tron payouts: txid, trigger, amount
    claim_txs,          \* the OrderCreated hashes whose order a mined claim() transaction claimed
    persisted,          \* chain -> content of backups/last_block_<chain>_events.txt (0: no file)
    ledger,             \* the processed_intents table, a set of rows
    receivers,          \* the receivers table, a set of rows
    pc,                 \* chain -> position of poll_blockchain_events
    last_block, current_block, from_block, to_block,
    receiver_addresses, order_logs, transfer_logs,
    idx,                \* chain -> index of the log the for-loop is at
    ip,                 \* chain -> position inside process_*_event ("none": not inside)
    tx_hash,            \* chain -> the local tx_hash (Tron txid) of the running pass
    receipt,            \* chain -> the intron receipt's transactionHash of the running pass
    out_amount,         \* chain -> the local recommended_output of the running pass
    handled,            \* history: chain -> hashes handed to the processor in this chunk attempt
    resume,             \* history: chain -> from_block of the chunk a stop interrupted (0: none)
    evm_failed,         \* history: triggers whose payout succeeded and whose EVM call then failed
    raised,             \* history: chain -> hashes whose processing raised in this chunk attempt
    rstate,             \* request -> position of resolve_handler
    raddr,              \* request -> lowercased_tron_address
    rtask,              \* request -> the case_fix_task it awaits (0: none)
    status,             \* request -> HTTP status of the response (0: none yet)
    app_in_progress,    \* request.app['in_progress_case_fixes']: address -> task (0: no entry)
    background_tasks,   \* request.app['background_tasks']
    tstate,             \* task -> position of process_case_fix
    tresult,            \* task -> fixed_tron_address, then the task's result ("": failure)
    sem_holder,         \* the task inside BINARY_SEMAPHORE (0: free)
    case_fixes,         \* the case_fixes table, a set of rows
    tool_runs,          \* history: address -> number of times the binary was started
    procs,              \* the tasks whose case-fix subprocess is running
    probe,              \* one call of is_profitable: its arguments and its result
    wire,               \* one /resolve request seen at the level of its bytes
    evm                 \* chain -> the relayer account's transactions and the running EVM call

envVars == <<config_chains, head, intron_txs, tron_txs, claim_txs>>
storeVars == <<persisted, ledger, receivers>>
loopVars == <<last_block, current_block, from_block, to_block, receiver_addresses,
              order_logs, transfer_logs, idx>>
passVars == <<ip, tx_hash, receipt, out_amount>>
histVars == <<handled, resume, evm_failed, raised>>
pollerVars == <<envVars, persisted, ledger, pc, loopVars, passVars, histVars>>
reqVars == <<rstate, raddr, rtask, status>>
taskVars == <<app_in_progress, background_tasks, tstate, tresult, sem_holder, case_fixes, tool_runs,
              procs>>
resolveVars == <<reqVars, taskVars>>
vars == <<pollerVars, receivers, resolveVars, probe, wire, evm>>

(***************************************************************************)
(* Pure helpers.                                                           *)
(***************************************************************************)
Min(a, b) == IF a <= b THEN a ELSE b

\* a gate that wants the input to exceed output plus fee
is_profitableStrict(chain, token_address, input_amount, output_amount) ==
    LET match == {t \in Tokens(chain) : Lower(t.address) = Lower(token_address)}
    IN  IF match = {} THEN FALSE
        ELSE LET token_config == CHOOSE t \in match : TRUE
                 percentage_fee == (output_amount * token_config.percentage_fee_bps) \div 10000
                 total_fee == token_config.static_fee + percentage_fee
             IN  input_amount > output_amount + total_fee

\* a gate that wants the input to equal output plus fee
is_profitableExact(chain, token_address, input_amount, output_amount) ==
    LET match == {t \in Tokens(chain) : Lower(t.address) = Lower(token_address)}
    IN  IF match = {} THEN FALSE
        ELSE LET token_config == CHOOSE t \in match : TRUE
                 percentage_fee == (output_amount * token_config.percentage_fee_bps) \div 10000
                 total_fee == token_config.static_fee + percentage_fee
             IN  input_amount = output_amount + total_fee

\* utils.is_profitable
is_profitable(chain, token_address, input_amount, output_amount) ==
    LET match == {t \in Tokens(chain) : Lower(t.address) = Lower(token_address)}
    IN  IF match = {} THEN FALSE
        ELSE LET token_config == CHOOSE t \in match : TRUE
                 percentage_fee == (output_amount * token_config.percentage_fee_bps) \div 10000
                 total_fee == token_config.static_fee + percentage_fee
             IN  input_amount >= output_amount + total_fee

\* the logs a node holds for a chain: the mined blocks' logs, and the
\* OrderCreated log every mined intron() transaction emitted
ChainLogs(c) ==
    {l \in StaticLogs : l.chain = c /\ l.block <= head[c]}
    \cup {[chain |-> c, block |-> i.block, kind |-> "order", tx |-> i.tx, to |-> "TAddr1",
           token |-> "0xaa", input |-> i.input, output |-> i.output]
          : i \in {j \in intron_txs : j.chain = c}}

\* web3.eth.get_logs returns the logs in chain order
RECURSIVE InChainOrder(_)
InChainOrder(S) ==
    IF S = {} THEN <<>>
    ELSE LET m == CHOOSE x \in S : \A y \in S : x.tx <= y.tx
         IN  <<m>> \o InChainOrder(S \ {m})

\* session.get(ProcessedIntent, key)
HasRow(key) == \E r \in ledger : r.eth_tx_hash = key
RowOf(key) == IF HasRow(key) THEN CHOOSE r \in ledger : r.eth_tx_hash = key ELSE NoRow

\* the log the for-loop of chain c is at
CurLog(c) ==
    IF pc[c] = "orders" /\ idx[c] <= Len(order_logs[c]) THEN order_logs[c][idx[c]]
    ELSE IF pc[c] = "transfers" /\ idx[c] <= Len(transfer_logs[c]) THEN transfer_logs[c][idx[c]]
    ELSE NoLog

PayoutsIn(T, h) == {t \in T : t.trigger = h}
PayoutsFor(h) == PayoutsIn(tron_txs, h)

(***************************************************************************)
(* Initial state: a fresh deployment (no watermark file, empty ledger).    *)
(***************************************************************************)
InitPoller(chains, known) ==
    /\ config_chains = chains
    /\ head = [c \in ChainNames |-> 0]
    /\ intron_txs = {}
    /\ tron_txs = {}
    /\ claim_txs = {}
    /\ persisted = [c \in ChainNames |-> 0]
    /\ ledger = {}
    /\ receivers = known
    /\ pc = [c \in ChainNames |-> IF c \in chains THEN "boot" ELSE "off"]
    /\ last_block = [c \in ChainNames |-> 0]
    /\ current_block = [c \in ChainNames |-> 0]
    /\ from_block = [c \in ChainNames |-> 0]
    /\ to_block = [c \in ChainNames |-> 0]
    /\ receiver_addresses = [c \in ChainNames |-> {}]
    /\ order_logs = [c \in ChainNames |-> <<>>]
    /\ transfer_logs = [c \in ChainNames |-> <<>>]
    /\ idx = [c \in ChainNames |-> 1]
    /\ ip = [c \in ChainNames |-> "none"]
    /\ tx_hash = [c \in ChainNames |-> 0]
    /\ receipt = [c \in ChainNames |-> 0]
    /\ out_amount = [c \in ChainNames |-> 0]
    /\ handled = [c \in ChainNames |-> {}]
    /\ resume = [c \in ChainNames |-> 0]
    /\ evm_failed = {}
    /\ raised = [c \in ChainNames |-> {}]

InitResolve ==
    /\ rstate = [r \in Requests |-> "idle"]
    /\ raddr = [r \in Requests |-> "none"]
    /\ rtask = [r \in Requests |-> 0]
    /\ status = [r \in Requests |-> 0]
    /\ app_in_progress = [a \in Addresses |-> 0]
    /\ background_tasks = {}
    /\ tstate = [t \in Requests |-> "none"]
    /\ tresult = [t \in Requests |-> ""]
    /\ sem_holder = 0
    /\ case_fixes = {}
    /\ tool_runs = [a \in Addresses |-> 0]
    /\ procs = {}

\* one configured chain, one receiver already resolved
Init == InitPoller({"c1"}, {KnownReceiver}) /\ InitResolve /\ probe = NoProbe /\ evm = NoEvm /\ wire = NoWire

(***************************************************************************)
(* poll_blockchain_events(chain_name), one step per await.                 *)
(***************************************************************************)
\* positions at which a chunk has been started and its watermark is not yet persisted
InChunk == {"fetch_orders", "fetch_transfers", "orders", "transfers", "save", "chunk_sleep"}

\* lines 186-189: load_last_block, and the chain head when nothing was persisted.
\* The read of the head at line 189 stands before the loop's `try`: when the node
\* fails it the exception leaves poll_blockchain_events, and asyncio.gather hands
\* it to main, which logs it and raises it again.
Boot(c) ==
    /\ pc[c] = "boot"
    /\ \/ /\ last_block' = [last_block EXCEPT ![c] =
                                 IF persisted[c] # 0 THEN persisted[c] ELSE head[c]]
          /\ pc' = [pc EXCEPT ![c] = "receivers"]
       \/ /\ persisted[c] = 0
          /\ pc' = [pc EXCEPT ![c] = "crashed"]
          /\ UNCHANGED last_block
    /\ UNCHANGED <<evm, wire, probe, resolveVars, envVars, storeVars, current_block, from_block, to_block, receiver_addresses,
                   order_logs, transfer_logs, idx, passVars, histVars>>

\* lines 196-198: the receiver addresses of this cycle
ReadReceivers(c) ==
    /\ pc[c] = "receivers"
    /\ receiver_addresses' = [receiver_addresses EXCEPT ![c] = {r.eth_address : r \in receivers}]
    /\ pc' = [pc EXCEPT ![c] = "head"]
    /\ UNCHANGED <<evm, wire, probe, resolveVars, envVars, storeVars, last_block, current_block, from_block, to_block,
                   order_logs, transfer_logs, idx, passVars, histVars>>

\* lines 200-205: the chain head; a gap starts the chunk loop.  A failed read is
\* caught at lines 279-281: the cycle ends and the poller sleeps.
ReadHead(c) ==
    /\ pc[c] = "head"
    /\ \/ /\ current_block' = [current_block EXCEPT ![c] = head[c]]
          /\ IF head[c] > last_block[c]
             THEN /\ from_block' = [from_block EXCEPT ![c] = last_block[c] + 1]
                  /\ pc' = [pc EXCEPT ![c] = "chunk"]
             ELSE /\ pc' = [pc EXCEPT ![c] = "sleep"]
                  /\ UNCHANGED from_block
       \/ /\ pc' = [pc EXCEPT ![c] = "sleep"]
          /\ UNCHANGED <<current_block, from_block>>
    /\ UNCHANGED <<evm, wire, probe, resolveVars, envVars, storeVars, last_block, to_block, receiver_addresses,
                   order_logs, transfer_logs, idx, passVars, histVars>>

\* a chunk loop that counts the chunk's first block twice
ChunkStartInclusive(c) ==
    /\ pc[c] = "chunk"
    /\ IF from_block[c] <= current_block[c]
       THEN /\ to_block' = [to_block EXCEPT ![c] =
                               Min(from_block[c] + chunk_size, current_block[c])]
            /\ pc' = [pc EXCEPT ![c] = "fetch_orders"]
            /\ handled' = [handled EXCEPT ![c] = {}]
            /\ raised' = [raised EXCEPT ![c] = {}]
       ELSE /\ pc' = [pc EXCEPT ![c] = "sleep"]
            /\ UNCHANGED <<to_block, handled, raised>>
    /\ UNCHANGED <<evm, wire, probe, resolveVars, envVars, storeVars, last_block, current_block, from_block, receiver_addresses,
                   order_logs, transfer_logs, idx, passVars, resume, evm_failed>>

\* lines 207-211: the chunk loop's condition and the chunk's ending block
ChunkStart(c) ==
    /\ pc[c] = "chunk"
    /\ IF from_block[c] <= current_block[c]
       THEN /\ to_block' = [to_block EXCEPT ![c] =
                               Min(from_block[c] + chunk_size - 1, current_block[c])]
            /\ pc' = [pc EXCEPT ![c] = "fetch_orders"]
            /\ handled' = [handled EXCEPT ![c] = {}]
            /\ raised' = [raised EXCEPT ![c] = {}]
       ELSE /\ pc' = [pc EXCEPT ![c] = "sleep"]
            /\ UNCHANGED <<to_block, handled, raised>>
    /\ UNCHANGED <<evm, wire, probe, resolveVars, envVars, storeVars, last_block, current_block, from_block, receiver_addresses,
                   order_logs, transfer_logs, idx, passVars, resume, evm_failed>>

\* the logs of kind k in the chunk's block range
LogsInRange(c, k) ==
    {l \in ChainLogs(c) : l.kind = k /\ from_block[c] <= l.block /\ l.block <= to_block[c]}

\* a poller that gives the chunk up, to be retried, when its OrderCreated logs
\* cannot be fetched
FetchOrdersOrRetry(c) ==
    /\ pc[c] = "fetch_orders"
    /\ \/ /\ order_logs' = [order_logs EXCEPT ![c] = InChainOrder(LogsInRange(c, "order"))]
          /\ pc' = [pc EXCEPT ![c] = "fetch_transfers"]
       \/ /\ pc' = [pc EXCEPT ![c] = "chunk_sleep"]
          /\ UNCHANGED order_logs
    /\ resume' = [resume EXCEPT ![c] = 0]
    /\ UNCHANGED <<evm, wire, probe, resolveVars, envVars, storeVars, last_block, current_block, from_block, to_block,
                   receiver_addresses, transfer_logs, idx, passVars, handled, evm_failed, raised>>

\* lines 213-225: OrderCreated logs; a failed fetch is an empty list
FetchOrders(c) ==
    /\ pc[c] = "fetch_orders"
    /\ \E ok \in BOOLEAN :
          order_logs' = [order_logs EXCEPT ![c] =
                            IF ok THEN InChainOrder(LogsInRange(c, "order")) ELSE <<>>]
    /\ pc' = [pc EXCEPT ![c] = "fetch_transfers"]
    /\ resume' = [resume EXCEPT ![c] = 0]
    /\ UNCHANGED <<evm, wire, probe, resolveVars, envVars, storeVars, last_block, current_block, from_block, to_block,
                   receiver_addresses, transfer_logs, idx, passVars, handled, evm_failed, raised>>

\* lines 227-244: Transfer logs to the known receivers; a failed fetch is an empty list
FetchTransfers(c) ==
    /\ pc[c] = "fetch_transfers"
    /\ \E ok \in BOOLEAN :
          transfer_logs' = [transfer_logs EXCEPT ![c] =
              IF receiver_addresses[c] # {} /\ ok
              THEN InChainOrder({l \in LogsInRange(c, "transfer") : l.to \in receiver_addresses[c]})
              ELSE <<>>]
    /\ pc' = [pc EXCEPT ![c] = "orders"]
    /\ idx' = [idx EXCEPT ![c] = 1]
    /\ UNCHANGED <<evm, wire, probe, resolveVars, envVars, storeVars, last_block, current_block, from_block, to_block,
                   receiver_addresses, order_logs, passVars, histVars>>

\* a poller that walks the fetched OrderCreated logs from the last to the first
NextOrderReversed(c) ==
    /\ pc[c] = "orders" /\ ip[c] = "none" /\ idx[c] <= Len(order_logs[c])
    /\ ip' = [ip EXCEPT ![c] = "o_get"]
    /\ handled' = [handled EXCEPT ![c] = @ \cup {order_logs[c][Len(order_logs[c]) + 1 - idx[c]].tx}]
    /\ UNCHANGED <<evm, wire, probe, resolveVars, envVars, storeVars, pc, loopVars, tx_hash, receipt, out_amount,
                   resume, evm_failed, raised>>

\* lines 253-255: the next OrderCreated log is handed to process_order_created_event
NextOrder(c) ==
    /\ pc[c] = "orders" /\ ip[c] = "none" /\ idx[c] <= Len(order_logs[c])
    /\ ip' = [ip EXCEPT ![c] = "o_get"]
    /\ handled' = [handled EXCEPT ![c] = @ \cup {order_logs[c][idx[c]].tx}]
    /\ UNCHANGED <<evm, wire, probe, resolveVars, envVars, storeVars, pc, loopVars, tx_hash, receipt, out_amount,
                   resume, evm_failed, raised>>

\* line 253: the order loop is exhausted
OrdersDone(c) ==
    /\ pc[c] = "orders" /\ ip[c] = "none" /\ idx[c] > Len(order_logs[c])
    /\ pc' = [pc EXCEPT ![c] = "transfers"]
    /\ idx' = [idx EXCEPT ![c] = 1]
    /\ UNCHANGED <<evm, wire, probe, resolveVars, envVars, storeVars, last_block, current_block, from_block, to_block,
                   receiver_addresses, order_logs, transfer_logs, passVars, histVars>>

\* lines 260-262: the next Transfer log is handed to process_transfer_event
NextTransfer(c) ==
    /\ pc[c] = "transfers" /\ ip[c] = "none" /\ idx[c] <= Len(transfer_logs[c])
    /\ ip' = [ip EXCEPT ![c] = "t_recv"]
    /\ handled' = [handled EXCEPT ![c] = @ \cup {transfer_logs[c][idx[c]].tx}]
    /\ UNCHANGED <<evm, wire, probe, resolveVars, envVars, storeVars, pc, loopVars, tx_hash, receipt, out_amount,
                   resume, evm_failed, raised>>

\* line 260: the transfer loop is exhausted, the session closes
TransfersDone(c) ==
    /\ pc[c] = "transfers" /\ ip[c] = "none" /\ idx[c] > Len(transfer_logs[c])
    /\ pc' = [pc EXCEPT ![c] = "save"]
    /\ UNCHANGED <<evm, wire, probe, resolveVars, envVars, storeVars, loopVars, passVars, histVars>>

\* a poller that writes the watermark while Transfer logs are still to be processed
SaveBeforeTransfers(c) == pc[c] \in {"save", "transfers"} /\ ip[c] = "none"

\* what the chunk has to have done before its watermark is written
ReadyToSave(c) == pc[c] = "save"

\* a poller whose in-memory watermark falls back to the persisted one when the write
\* of the file fails
SaveLastBlockRollback(c) ==
    /\ ReadyToSave(c)
    /\ \/ /\ persisted' = [persisted EXCEPT ![c] = to_block[c]]
          /\ last_block' = [last_block EXCEPT ![c] = to_block[c]]
          /\ from_block' = [from_block EXCEPT ![c] = to_block[c] + 1]
          /\ pc' = [pc EXCEPT ![c] = "chunk"]
       \/ /\ pc' = [pc EXCEPT ![c] = "chunk_sleep"]
          /\ last_block' = [last_block EXCEPT ![c] = persisted[c]]
          /\ UNCHANGED <<persisted, from_block>>
    /\ UNCHANGED <<evm, wire, probe, resolveVars, envVars, ledger, receivers, current_block, to_block, receiver_addresses,
                   order_logs, transfer_logs, idx, passVars, histVars>>

\* a poller whose watermark file is not named after its chain: one file for all
SaveLastBlockShared(c) ==
    /\ ReadyToSave(c)
    /\ last_block' = [last_block EXCEPT ![c] = to_block[c]]
    /\ \/ /\ persisted' = [d \in ChainNames |-> to_block[c]]
          /\ from_block' = [from_block EXCEPT ![c] = to_block[c] + 1]
          /\ pc' = [pc EXCEPT ![c] = "chunk"]
       \/ /\ pc' = [pc EXCEPT ![c] = "chunk_sleep"]
          /\ UNCHANGED <<persisted, from_block>>
    /\ UNCHANGED <<evm, wire, probe, resolveVars, envVars, ledger, receivers, current_block, to_block, receiver_addresses,
                   order_logs, transfer_logs, idx, passVars, histVars>>

\* a poller that goes on to the next chunk when the write of the watermark failed
SaveLastBlockMoveOn(c) ==
    /\ ReadyToSave(c)
    /\ last_block' = [last_block EXCEPT ![c] = to_block[c]]
    /\ from_block' = [from_block EXCEPT ![c] = to_block[c] + 1]
    /\ \/ /\ persisted' = [persisted EXCEPT ![c] = to_block[c]]
          /\ pc' = [pc EXCEPT ![c] = "chunk"]
       \/ /\ pc' = [pc EXCEPT ![c] = "chunk_sleep"]
          /\ UNCHANGED persisted
    /\ UNCHANGED <<evm, wire, probe, resolveVars, envVars, ledger, receivers, current_block, to_block, receiver_addresses,
                   order_logs, transfer_logs, idx, passVars, histVars>>

\* lines 267-275: last_block = to_block, save_last_block, from_block = to_block + 1;
\* a failing write leaves the file and from_block as they were and retries the chunk
SaveLastBlock(c) ==
    /\ ReadyToSave(c)
    /\ last_block' = [last_block EXCEPT ![c] = to_block[c]]
    /\ \/ /\ persisted' = [persisted EXCEPT ![c] = to_block[c]]
          /\ from_block' = [from_block EXCEPT ![c] = to_block[c] + 1]
          /\ pc' = [pc EXCEPT ![c] = "chunk"]
       \/ /\ pc' = [pc EXCEPT ![c] = "chunk_sleep"]
          /\ UNCHANGED <<persisted, from_block>>
    /\ UNCHANGED <<evm, wire, probe, resolveVars, envVars, ledger, receivers, current_block, to_block, receiver_addresses,
                   order_logs, transfer_logs, idx, passVars, histVars>>

\* lines 274-275: sleep, then the same chunk again
ChunkSleep(c) ==
    /\ pc[c] = "chunk_sleep"
    /\ pc' = [pc EXCEPT ![c] = "chunk"]
    /\ UNCHANGED <<evm, wire, probe, resolveVars, envVars, storeVars, loopVars, passVars, histVars>>

\* line 277: sleep, then the next cycle
Sleep(c) ==
    /\ pc[c] = "sleep"
    /\ pc' = [pc EXCEPT ![c] = "receivers"]
    /\ UNCHANGED <<evm, wire, probe, resolveVars, envVars, storeVars, loopVars, passVars, histVars>>

\* the environment mines a block
HeadAdvance(c) ==
    /\ c \in config_chains
    /\ head[c] < MaxHead
    /\ head' = [head EXCEPT ![c] = @ + 1]
    /\ UNCHANGED <<evm, wire, probe, resolveVars, config_chains, intron_txs, tron_txs, claim_txs, storeVars, pc, loopVars,
                   passVars, histVars>>

\* the process is stopped (killed, or its tasks cancelled at their awaits) and
\* started again: memory is lost, the ledger and the watermark files stay
Restart ==
    /\ \E c \in config_chains : pc[c] # "boot"
    /\ pc' = [c \in ChainNames |-> IF c \in config_chains THEN "boot" ELSE "off"]
    /\ last_block' = [c \in ChainNames |-> 0]
    /\ current_block' = [c \in ChainNames |-> 0]
    /\ from_block' = [c \in ChainNames |-> 0]
    /\ to_block' = [c \in ChainNames |-> 0]
    /\ receiver_addresses' = [c \in ChainNames |-> {}]
    /\ order_logs' = [c \in ChainNames |-> <<>>]
    /\ transfer_logs' = [c \in ChainNames |-> <<>>]
    /\ idx' = [c \in ChainNames |-> 1]
    /\ ip' = [c \in ChainNames |-> "none"]
    /\ tx_hash' = [c \in ChainNames |-> 0]
    /\ receipt' = [c \in ChainNames |-> 0]
    /\ out_amount' = [c \in ChainNames |-> 0]
    /\ handled' = [c \in ChainNames |-> {}]
    /\ resume' = [c \in ChainNames |-> IF pc[c] \in InChunk THEN from_block[c] ELSE resume[c]]
    /\ raised' = [c \in ChainNames |-> {}]
    /\ UNCHANGED <<evm, wire, probe, resolveVars, envVars, storeVars, evm_failed>>

(***************************************************************************)
(* The intent processor: process_order_created_event and                   *)
(* process_transfer_event, one step per await.                             *)
(***************************************************************************)
\* the function returns: the loop moves on
Return(c) ==
    /\ ip' = [ip EXCEPT ![c] = "none"]
    /\ idx' = [idx EXCEPT ![c] = @ + 1]
    /\ tx_hash' = [tx_hash EXCEPT ![c] = 0]
    /\ receipt' = [receipt EXCEPT ![c] = 0]
    /\ out_amount' = [out_amount EXCEPT ![c] = 0]
    /\ UNCHANGED raised

\* a loop whose `except` leaves the for-loop: the logs after the one that raised
\* are dropped
RaisedBreaks(c) ==
    /\ ip' = [ip EXCEPT ![c] = "none"]
    /\ idx' = [idx EXCEPT ![c] = Len(IF pc[c] = "orders" THEN order_logs[c]
                                                          ELSE transfer_logs[c]) + 1]
    /\ tx_hash' = [tx_hash EXCEPT ![c] = 0]
    /\ receipt' = [receipt EXCEPT ![c] = 0]
    /\ out_amount' = [out_amount EXCEPT ![c] = 0]
    /\ raised' = [raised EXCEPT ![c] = @ \cup {CurLog(c).tx}]

\* lines 256-258 and 263-265: the function raises into the loop's `except`, which
\* logs the error and continues with the next log
Raised(c) ==
    /\ ip' = [ip EXCEPT ![c] = "none"]
    /\ idx' = [idx EXCEPT ![c] = @ + 1]
    /\ tx_hash' = [tx_hash EXCEPT ![c] = 0]
    /\ receipt' = [receipt EXCEPT ![c] = 0]
    /\ out_amount' = [out_amount EXCEPT ![c] = 0]
    /\ raised' = [raised EXCEPT ![c] = @ \cup {CurLog(c).tx}]

Stay(c, next) ==
    /\ ip' = [ip EXCEPT ![c] = next]
    /\ UNCHANGED <<idx, raised>>

PassFrame == UNCHANGED <<pc, last_block, current_block, from_block, to_block,
                         receiver_addresses, order_logs, transfer_logs, handled, resume,
                         config_chains, persisted, receivers, resolveVars, probe, wire, evm>>

\* the Tron node's answers to the broadcast of a payout for trigger h: None (0),
\* or a new txid while it accepts payouts
PayoutResults(h) ==
    {0} \cup (IF Cardinality(tron_txs) < MaxPayouts
              THEN {TronTxid(h, Cardinality(PayoutsFor(h)) + 1)} ELSE {})

\* a processor that pays without looking at the row it read
OrderBranchNoLookup(existing, profitable) == IF ~profitable THEN "return" ELSE "o_pay"

\* a processor without the profitability gate
OrderBranchNoGate(existing, profitable) ==
    IF existing # NoRow
    THEN IF existing.source = "receiver"
         THEN IF existing.is_claimed THEN "return" ELSE "o_reclaim"
         ELSE "return"
    ELSE "o_pay"

\* a processor that claims for every receiver row it finds, claimed or not
OrderBranchReclaimAlways(existing, profitable) ==
    IF existing # NoRow
    THEN IF existing.source = "receiver" THEN "o_reclaim" ELSE "return"
    ELSE IF ~profitable THEN "return" ELSE "o_pay"

\* a processor that claims again for an unclaimed row whatever its source
OrderBranchRetryClaim(existing, profitable) ==
    IF existing # NoRow
    THEN IF existing.is_claimed THEN "return" ELSE "o_reclaim"
    ELSE IF ~profitable THEN "return" ELSE "o_pay"

\* lines 111-138: what follows the idempotency read of the order path
OrderBranch(existing, profitable) ==
    IF existing # NoRow
    THEN IF existing.source = "receiver"
         THEN IF existing.is_claimed THEN "return" ELSE "o_reclaim"
         ELSE "return"
    ELSE IF ~profitable THEN "return" ELSE "o_pay"

\* a processor that records the payout whatever send_usdt returned
AfterPayoutUnchecked(txid, next) == next

\* lines 144-146 and 59-61: `if not tx_hash: return False`
AfterPayout(txid, next) == IF txid = 0 THEN "return" ELSE next

\* a processor that flips is_claimed whatever claim_order returned
AfterClaimUnchecked(ok, next) == next

\* lines 122 and 162: `if eth_tx_hash:` guards the flip of is_claimed
AfterClaim(ok, next) == IF ok THEN next ELSE "return"

\* a table without primary key
InsertRowNoKey(L, row) == L \cup {row}

\* session.add(row); session.commit(): the primary key refuses a second row
InsertRow(L, row) == IF \E r \in L : r.eth_tx_hash = row.eth_tx_hash THEN L ELSE L \cup {row}

\* row.is_claimed = True; session.commit()
SetClaimed(L, key) ==
    {IF r.eth_tx_hash = key THEN [r EXCEPT !.is_claimed = TRUE] ELSE r : r \in L}

\* lines 105-138: decode, idempotency read, profitability gate; the decoding of
\* the log or the read of the ledger may raise
OGet(c) ==
    /\ ip[c] = "o_get"
    /\ \/ LET log == CurLog(c)
              existing == RowOf(log.tx)
              next == OrderBranch(existing, is_profitable(c, log.token, log.input, log.output))
          IN  IF next = "return"
              THEN Return(c)
              ELSE Stay(c, next) /\ UNCHANGED <<tx_hash, receipt, out_amount>>
       \/ Raised(c)
    /\ PassFrame
    /\ UNCHANGED <<head, intron_txs, tron_txs, claim_txs, ledger, evm_failed>>

\* lines 121-126: claim_order for a receiver-filled order returns
OReclaim(c) ==
    /\ ip[c] = "o_reclaim"
    /\ \E ok \in BOOLEAN :
          LET log == CurLog(c)
              next == AfterClaim(ok, "o_reflip")
          IN  /\ claim_txs' = IF ok THEN claim_txs \cup {log.tx} ELSE claim_txs
              /\ IF next = "return"
                 THEN Return(c)
                 ELSE Stay(c, next) /\ UNCHANGED <<tx_hash, receipt, out_amount>>
    /\ PassFrame
    /\ UNCHANGED <<head, intron_txs, tron_txs, ledger, evm_failed>>

\* lines 123-126: existing.is_claimed = True, commit
OReflip(c) ==
    /\ ip[c] = "o_reflip"
    /\ LET log == CurLog(c)
       IN  /\ ledger' = SetClaimed(ledger, log.tx)
           /\ Return(c)
    /\ PassFrame
    /\ UNCHANGED <<head, intron_txs, tron_txs, claim_txs, evm_failed>>

\* a processor that claims the order as soon as it is paid, before its row is stored
OPayThenClaim(c) ==
    /\ ip[c] = "o_pay"
    /\ \E txid \in PayoutResults(CurLog(c).tx) :
          LET log == CurLog(c)
              next == AfterPayout(txid, "o_claim")
          IN  /\ tron_txs' = IF txid # 0
                             THEN tron_txs \cup {[txid |-> txid, trigger |-> log.tx,
                                                  amount |-> log.output]}
                             ELSE tron_txs
              /\ IF next = "return"
                 THEN Return(c)
                 ELSE /\ Stay(c, next)
                      /\ tx_hash' = [tx_hash EXCEPT ![c] = txid]
                      /\ UNCHANGED <<receipt, out_amount>>
    /\ PassFrame
    /\ UNCHANGED <<head, intron_txs, claim_txs, ledger, evm_failed>>

\* lines 140-146: send_usdt(outputAmount) returns
OPay(c) ==
    /\ ip[c] = "o_pay"
    /\ \E txid \in PayoutResults(CurLog(c).tx) :
          LET log == CurLog(c)
              next == AfterPayout(txid, "o_commit")
          IN  /\ tron_txs' = IF txid # 0
                             THEN tron_txs \cup {[txid |-> txid, trigger |-> log.tx,
                                                  amount |-> log.output]}
                             ELSE tron_txs
              /\ IF next = "return"
                 THEN Return(c)
                 ELSE /\ Stay(c, next)
                      /\ tx_hash' = [tx_hash EXCEPT ![c] = txid]
                      /\ UNCHANGED <<receipt, out_amount>>
    /\ PassFrame
    /\ UNCHANGED <<head, intron_txs, claim_txs, ledger, evm_failed>>

\* lines 148-158: the row is added and committed
OCommit(c) ==
    /\ ip[c] = "o_commit"
    /\ LET log == CurLog(c)
           row == [eth_tx_hash |-> log.tx, tron_tx_hash |-> tx_hash[c],
                   source |-> "order", is_claimed |-> FALSE]
       IN  /\ ledger' = InsertRow(ledger, row)
           /\ IF HasRow(log.tx)
              THEN Raised(c)
              ELSE Stay(c, "o_claim") /\ UNCHANGED <<tx_hash, receipt, out_amount>>
    /\ PassFrame
    /\ UNCHANGED <<head, intron_txs, tron_txs, claim_txs, evm_failed>>

\* lines 160-169: claim_order returns
OClaim(c) ==
    /\ ip[c] = "o_claim"
    /\ \E ok \in BOOLEAN :
          LET log == CurLog(c)
              next == AfterClaim(ok, "o_flip")
          IN  /\ claim_txs' = IF ok THEN claim_txs \cup {log.tx} ELSE claim_txs
              /\ evm_failed' = IF ok THEN evm_failed ELSE evm_failed \cup {log.tx}
              /\ IF next = "return"
                 THEN Return(c)
                 ELSE Stay(c, next) /\ UNCHANGED <<tx_hash, receipt, out_amount>>
    /\ PassFrame
    /\ UNCHANGED <<head, intron_txs, tron_txs, ledger>>

\* lines 163-166: processed.is_claimed = True, commit
OFlip(c) ==
    /\ ip[c] = "o_flip"
    /\ LET log == CurLog(c)
       IN  /\ ledger' = SetClaimed(ledger, log.tx)
           /\ Return(c)
    /\ PassFrame
    /\ UNCHANGED <<head, intron_txs, tron_txs, claim_txs, evm_failed>>

\* lines 29-37: the receiver lookup (ilike: case-insensitive)
ReceiverFor(to_address) == {r \in receivers : Lower(r.eth_address) = Lower(to_address)}

\* lines 24-42: extract the transfer, look the receiver up
TRecv(c) ==
    /\ ip[c] = "t_recv"
    /\ LET log == CurLog(c)
       IN  IF ReceiverFor(log.to) = {}
           THEN Return(c)
           ELSE Stay(c, "t_get") /\ UNCHANGED <<tx_hash, receipt, out_amount>>
    /\ PassFrame
    /\ UNCHANGED <<head, intron_txs, tron_txs, claim_txs, ledger, evm_failed>>

\* line 45: the key of the idempotency read of the transfer path
intent_id(log) == log.tx

\* lines 44-51: idempotency read by the triggering transaction hash
TGet(c) ==
    /\ ip[c] = "t_get"
    /\ LET log == CurLog(c)
           existing == RowOf(intent_id(log))
       IN  IF existing # NoRow
           THEN Return(c)
           ELSE Stay(c, "t_quote") /\ UNCHANGED <<tx_hash, receipt, out_amount>>
    /\ PassFrame
    /\ UNCHANGED <<head, intron_txs, tron_txs, claim_txs, ledger, evm_failed>>

\* lines 53-54: recommendedOutputAmount returns a quote or raises
TQuote(c) ==
    /\ ip[c] = "t_quote"
    /\ \/ \E q \in Quotes :
             /\ Stay(c, "t_pay")
             /\ out_amount' = [out_amount EXCEPT ![c] = q]
             /\ UNCHANGED <<tx_hash, receipt>>
       \/ Raised(c)
    /\ PassFrame
    /\ UNCHANGED <<head, intron_txs, tron_txs, claim_txs, ledger, evm_failed>>

\* lines 56-61: send_usdt(recommended_output) returns
TPay(c) ==
    /\ ip[c] = "t_pay"
    /\ \E txid \in PayoutResults(CurLog(c).tx) :
          LET log == CurLog(c)
              next == AfterPayout(txid, "t_intron")
          IN  /\ tron_txs' = IF txid # 0
                             THEN tron_txs \cup {[txid |-> txid, trigger |-> log.tx,
                                                  amount |-> out_amount[c]]}
                             ELSE tron_txs
              /\ IF next = "return"
                 THEN Return(c)
                 ELSE /\ Stay(c, next)
                      /\ tx_hash' = [tx_hash EXCEPT ![c] = txid]
                      /\ UNCHANGED <<receipt, out_amount>>
    /\ PassFrame
    /\ UNCHANGED <<head, intron_txs, claim_txs, ledger, evm_failed>>

\* lines 63-79: call_intron returns the receipt of a mined transaction, or raises
TIntron(c) ==
    /\ ip[c] = "t_intron"
    /\ LET log == CurLog(c)
           n == Cardinality(intron_txs)
           hash == IntronHash(log.tx, Cardinality({i \in intron_txs : i.trigger = log.tx}) + 1)
       IN  \/ /\ n < MaxIntrons
              /\ intron_txs' = intron_txs \cup
                     {[tx |-> hash, trigger |-> log.tx, chain |-> c,
                       block |-> head[c] + 1, input |-> log.input, output |-> out_amount[c]]}
              /\ head' = [head EXCEPT ![c] = @ + 1]
              /\ Stay(c, "t_commit")
              /\ receipt' = [receipt EXCEPT ![c] = hash]
              /\ UNCHANGED <<tx_hash, out_amount, evm_failed>>
           \/ /\ evm_failed' = evm_failed \cup {log.tx}
              /\ Return(c)
              /\ UNCHANGED <<intron_txs, head>>
    /\ PassFrame
    /\ UNCHANGED <<tron_txs, claim_txs, ledger>>

\* a transfer path that stores its row under the hash of the Transfer log
transfer_row_key_trigger(c, log) == log.tx

\* line 83: the key of the row the transfer path inserts
transfer_row_key(c, log) == receipt[c]

\* lines 81-94: the row is added and committed
TCommit(c) ==
    /\ ip[c] = "t_commit"
    /\ LET log == CurLog(c)
           row == [eth_tx_hash |-> transfer_row_key(c, log), tron_tx_hash |-> tx_hash[c],
                   source |-> "receiver", is_claimed |-> FALSE]
       IN  /\ ledger' = InsertRow(ledger, row)
           /\ Return(c)
    /\ PassFrame
    /\ UNCHANGED <<head, intron_txs, tron_txs, claim_txs, evm_failed>>

Poller(c) ==
    \/ Boot(c) \/ ReadReceivers(c) \/ ReadHead(c) \/ ChunkStart(c)
    \/ FetchOrders(c) \/ FetchTransfers(c)
    \/ NextOrder(c) \/ OrdersDone(c) \/ NextTransfer(c) \/ TransfersDone(c)
    \/ SaveLastBlock(c) \/ ChunkSleep(c) \/ Sleep(c)

Processor(c) ==
    \/ OGet(c) \/ OReclaim(c) \/ OReflip(c) \/ OPay(c) \/ OCommit(c) \/ OClaim(c) \/ OFlip(c)
    \/ TRecv(c) \/ TGet(c) \/ TQuote(c) \/ TPay(c) \/ TIntron(c) \/ TCommit(c)

Next ==
    \/ \E c \in ChainNames : Poller(c) \/ Processor(c) \/ HeadAdvance(c)
    \/ Restart

Spec == Init /\ [][Next]_vars

(***************************************************************************)
(* Two chains polled side by side (start_blockchain_listeners gathers one  *)
(* poll_blockchain_events per configured chain), with no receiver resolved *)
(* yet: no Transfer log is ever fetched (line 229), so the steps of         *)
(* process_transfer_event and the re-claim of receiver rows never occur.   *)
(* The process runs without being stopped; a chunk is processed again when *)
(* the write of its watermark fails.                                       *)
(***************************************************************************)
InitMulti == InitPoller({"c2", "c3"}, {}) /\ InitResolve /\ probe = NoProbe /\ evm = NoEvm /\ wire = NoWire

NextMulti ==
    \E c \in ChainNames :
          \/ Boot(c) \/ ReadReceivers(c) \/ ReadHead(c) \/ ChunkStart(c)
          \/ FetchOrders(c) \/ FetchTransfers(c)
          \/ NextOrder(c) \/ OrdersDone(c) \/ TransfersDone(c)
          \/ SaveLastBlock(c) \/ ChunkSleep(c) \/ Sleep(c)
          \/ OGet(c) \/ OPay(c) \/ OCommit(c) \/ OClaim(c) \/ OFlip(c)
          \/ HeadAdvance(c)

SpecMulti == InitMulti /\ [][NextMulti]_vars

(***************************************************************************)
(* The /resolve endpoint (relayer/endpoints.py): resolve_handler, one step *)
(* per await, and the case-fix task process_case_fix.  A task carries the  *)
(* number of the request that created it.                                  *)
(***************************************************************************)
pollerFrame == UNCHANGED <<pollerVars, probe, wire, evm>>

\* lines 91 and 93: hasattr(request.app, name).  The two collections are stored as
\* items of the application (request.app[name] = ...), never as attributes, and
\* web.Application resolves no attribute from its items: the test is false on
\* every request.
AppHasAttr(name) == FALSE

\* task.done()
TaskDone(t) == tstate[t] \in {"done", "cancelled"}

\* lines 96-100: `existing_task and not existing_task.done()`
Reusable(existing) == existing # 0 /\ ~TaskDone(existing)

\* the addresses are named in the order of their first use: "taddr2" is asked for
\* only after "taddr1" has been
InOrderOfUse(a) == a = "taddr1" \/ \E q \in Requests : raddr[q] = "taddr1"

\* lines 63-114: the request is parsed, the application state is initialised "if
\* needed", and the request joins the running task for its address or creates one.
\* Requests are numbered in their order of arrival.
Arrive(r) ==
    /\ rstate[r] = "idle"
    /\ \A q \in Requests : q < r => rstate[q] # "idle"
    /\ \E a \in {x \in Addresses : InOrderOfUse(x)} :
          LET in_progress == IF AppHasAttr("in_progress_case_fixes")
                             THEN app_in_progress ELSE [x \in Addresses |-> 0]
              background == IF AppHasAttr("background_tasks") THEN background_tasks ELSE {}
              existing == in_progress[a]
          IN  /\ raddr' = [raddr EXCEPT ![r] = a]
              /\ rstate' = [rstate EXCEPT ![r] = "await"]
              /\ IF Reusable(existing)
                 THEN /\ rtask' = [rtask EXCEPT ![r] = existing]
                      /\ app_in_progress' = in_progress
                      /\ background_tasks' = background
                      /\ UNCHANGED tstate
                 ELSE /\ rtask' = [rtask EXCEPT ![r] = r]
                      /\ tstate' = [tstate EXCEPT ![r] = "check"]
                      /\ app_in_progress' = [in_progress EXCEPT ![a] = r]
                      /\ background_tasks' = background \cup {r}
    /\ UNCHANGED <<status, tresult, sem_holder, case_fixes, tool_runs, procs, receivers>>
    /\ pollerFrame

\* lines 109-112: cleanup_task, the done callback of task t
CleanedUp(t) ==
    /\ background_tasks' = background_tasks \ {t}
    /\ app_in_progress' = [a \in Addresses |->
                              IF a = raddr[t] /\ app_in_progress[a] = t
                              THEN 0 ELSE app_in_progress[a]]

\* lines 37-39 and utils.py 68-72: the semaphore is taken and the subprocess created
StartBinary(t) ==
    /\ sem_holder' = t
    /\ procs' = procs \cup {t}
    /\ tstate' = [tstate EXCEPT ![t] = "binary"]
    /\ tool_runs' = [tool_runs EXCEPT ![raddr[t]] = @ + 1]
    /\ UNCHANGED <<tresult, case_fixes, app_in_progress, background_tasks>>

\* lines 25-39: the cache lookup; a hit ends the task, a miss goes for the binary
TaskCheck(t) ==
    /\ tstate[t] = "check"
    /\ LET hit == {row \in case_fixes : row.lowercase = raddr[t]}
       IN  IF hit # {}
           THEN /\ tstate' = [tstate EXCEPT ![t] = "done"]
                /\ tresult' = [tresult EXCEPT ![t] = (CHOOSE row \in hit : TRUE).original]
                /\ CleanedUp(t)
                /\ UNCHANGED <<sem_holder, case_fixes, tool_runs, procs>>
           ELSE IF sem_holder = 0
                THEN StartBinary(t)
                ELSE /\ tstate' = [tstate EXCEPT ![t] = "wait_sem"]
                     /\ UNCHANGED <<tresult, sem_holder, case_fixes, tool_runs, procs,
                                    app_in_progress, background_tasks>>
    /\ UNCHANGED <<reqVars, receivers>>
    /\ pollerFrame

\* line 37: a waiting task gets the released semaphore
TaskAcquire(t) ==
    /\ tstate[t] = "wait_sem"
    /\ sem_holder = 0
    /\ StartBinary(t)
    /\ UNCHANGED <<reqVars, receivers>>
    /\ pollerFrame

\* lines 39-51 and utils.run_case_fix_binary: the subprocess ends and communicate()
\* returns, with the canonical address on standard output or with nothing usable
TaskBinary(t) ==
    /\ tstate[t] = "binary"
    /\ sem_holder' = 0
    /\ procs' = procs \ {t}
    /\ \E out \in {"", Canonical(raddr[t])} :
          IF out # ""
          THEN /\ tstate' = [tstate EXCEPT ![t] = "commit"]
               /\ tresult' = [tresult EXCEPT ![t] = out]
               /\ UNCHANGED <<app_in_progress, background_tasks>>
          ELSE /\ tstate' = [tstate EXCEPT ![t] = "done"]
               /\ tresult' = [tresult EXCEPT ![t] = ""]
               /\ CleanedUp(t)
    /\ UNCHANGED <<reqVars, case_fixes, tool_runs, receivers>>
    /\ pollerFrame

\* lines 43-54: the CaseFix row is committed; the unique key refuses a second row
\* for the address, and the error makes the task return ""
TaskCommit(t) ==
    /\ tstate[t] = "commit"
    /\ IF \E row \in case_fixes : row.lowercase = raddr[t]
       THEN /\ tresult' = [tresult EXCEPT ![t] = ""]
            /\ UNCHANGED case_fixes
       ELSE /\ case_fixes' = case_fixes \cup
                                {[lowercase |-> raddr[t], original |-> tresult[t]]}
            /\ UNCHANGED tresult
    /\ tstate' = [tstate EXCEPT ![t] = "done"]
    /\ CleanedUp(t)
    /\ UNCHANGED <<reqVars, sem_holder, tool_runs, procs, receivers>>
    /\ pollerFrame

\* lines 116-130: what the cancellation of a handler that awaits task t does to t.
\* `await case_fix_task` awaits the task itself: cancelling the awaiting handler
\* cancels the task it waits for.
AfterCancel(state) == IF state \in {"done", "cancelled"} THEN state ELSE "cancelled"

\* the client of request r goes away while the handler awaits the case-fix task;
\* a commit the cancellation interrupts may or may not have reached the table.
\* The cancellation of a task inside communicate() leaves `async with
\* BINARY_SEMAPHORE` and so releases the semaphore, and nothing kills,
\* terminates or waits for the subprocess: it runs on until it exits by itself.
CancelRequest(r) ==
    /\ rstate[r] = "await"
    /\ LET t == rtask[r]
       IN  /\ tstate' = [tstate EXCEPT ![t] = AfterCancel(tstate[t])]
           /\ sem_holder' = IF sem_holder = t /\ AfterCancel(tstate[t]) = "cancelled"
                            THEN 0 ELSE sem_holder
           /\ IF tstate[t] # AfterCancel(tstate[t])
              THEN CleanedUp(t)
              ELSE UNCHANGED <<app_in_progress, background_tasks>>
    /\ \/ UNCHANGED case_fixes
       \/ /\ tstate[rtask[r]] = "commit"
          /\ ~\E row \in case_fixes : row.lowercase = raddr[rtask[r]]
          /\ case_fixes' = case_fixes \cup {[lowercase |-> raddr[rtask[r]],
                                             original |-> tresult[rtask[r]]]}
    /\ rstate' = [rstate EXCEPT ![r] = "done"]
    /\ status' = [status EXCEPT ![r] = 499]
    /\ UNCHANGED <<raddr, rtask, tresult, tool_runs, procs, receivers>>
    /\ pollerFrame

\* a handler that takes whatever the task returned for an address
RespondUnchecked(r) ==
    /\ rstate[r] = "await"
    /\ TaskDone(rtask[r])
    /\ IF tstate[rtask[r]] = "cancelled"
       THEN /\ rstate' = [rstate EXCEPT ![r] = "done"]
            /\ status' = [status EXCEPT ![r] = 499]
       ELSE /\ rstate' = [rstate EXCEPT ![r] = "derive"]
            /\ UNCHANGED status
    /\ UNCHANGED <<raddr, rtask, taskVars, receivers>>
    /\ pollerFrame

\* lines 118-130: the awaited task has ended
Respond(r) ==
    /\ rstate[r] = "await"
    /\ TaskDone(rtask[r])
    /\ IF tstate[rtask[r]] = "cancelled"
       THEN /\ rstate' = [rstate EXCEPT ![r] = "done"]
            /\ status' = [status EXCEPT ![r] = 499]
       ELSE IF tresult[rtask[r]] = ""
            THEN /\ rstate' = [rstate EXCEPT ![r] = "done"]
                 /\ status' = [status EXCEPT ![r] = 500]
            ELSE /\ rstate' = [rstate EXCEPT ![r] = "derive"]
                 /\ UNCHANGED status
    /\ UNCHANGED <<raddr, rtask, taskVars, receivers>>
    /\ pollerFrame

\* lines 132-143: the address decodes, generate_receiver_address returns or raises
Derive(r) ==
    /\ rstate[r] = "derive"
    /\ \/ /\ rstate' = [rstate EXCEPT ![r] = "select"]
          /\ UNCHANGED status
       \/ /\ rstate' = [rstate EXCEPT ![r] = "done"]
          /\ status' = [status EXCEPT ![r] = 500]
    /\ UNCHANGED <<raddr, rtask, taskVars, receivers>>
    /\ pollerFrame

\* lines 145-160: the receiver lookup by the derived address
Select(r) ==
    /\ rstate[r] = "select"
    /\ LET fixed == tresult[rtask[r]]
       IN  IF \E row \in receivers : row.eth_address = ReceiverAddress(fixed)
           THEN /\ rstate' = [rstate EXCEPT ![r] = "done"]
                /\ status' = [status EXCEPT ![r] = 200]
           ELSE /\ rstate' = [rstate EXCEPT ![r] = "insert"]
                /\ UNCHANGED status
    /\ UNCHANGED <<raddr, rtask, taskVars, receivers>>
    /\ pollerFrame

\* a receivers table whose two address columns carry no unique constraint
ReceiverRefusedNever(T, row) == FALSE

\* models.py 12-13: tron_address and eth_address are unique columns, a row that
\* repeats either is refused at commit
ReceiverRefused(T, row) ==
    \E x \in T : x.eth_address = row.eth_address \/ x.tron_address = row.tron_address

\* a handler whose insert replaces the row it collides with
InsertOrReplace(r) ==
    /\ rstate[r] = "insert"
    /\ LET fixed == tresult[rtask[r]]
           row == [id |-> Cardinality(receivers) + 1,
                   eth_address |-> ReceiverAddress(fixed), tron_address |-> fixed]
       IN  /\ receivers' = {x \in receivers : ~ReceiverRefused({x}, row)} \cup {row}
           /\ status' = [status EXCEPT ![r] = 200]
    /\ rstate' = [rstate EXCEPT ![r] = "done"]
    /\ UNCHANGED <<raddr, rtask, taskVars>>
    /\ pollerFrame

\* lines 151-173: the new Receiver row is committed under the next value of its
\* integer primary key, and a refused insert ends in the handler's `except Exception`
Insert(r) ==
    /\ rstate[r] = "insert"
    /\ LET fixed == tresult[rtask[r]]
           row == [id |-> Cardinality(receivers) + 1,
                   eth_address |-> ReceiverAddress(fixed), tron_address |-> fixed]
       IN  IF ReceiverRefused(receivers, row)
           THEN /\ status' = [status EXCEPT ![r] = 500]
                /\ UNCHANGED receivers
           ELSE /\ receivers' = receivers \cup {row}
                /\ status' = [status EXCEPT ![r] = 200]
    /\ rstate' = [rstate EXCEPT ![r] = "done"]
    /\ UNCHANGED <<raddr, rtask, taskVars>>
    /\ pollerFrame

\* the subprocess of a task that was cancelled while it waited for it exits
ProcExit(t) ==
    /\ t \in procs
    /\ tstate[t] = "cancelled"
    /\ procs' = procs \ {t}
    /\ UNCHANGED <<reqVars, app_in_progress, background_tasks, tstate, tresult, sem_holder,
                   case_fixes, tool_runs, receivers>>
    /\ pollerFrame

NextResolve ==
    \E r \in Requests :
        \/ Arrive(r) \/ CancelRequest(r) \/ Respond(r) \/ Derive(r) \/ Select(r) \/ Insert(r)
        \/ TaskCheck(r) \/ TaskAcquire(r) \/ TaskBinary(r) \/ TaskCommit(r) \/ ProcExit(r)

\* the server alone: no chain configured, empty tables
InitResolveOnly == InitPoller({}, {}) /\ InitResolve /\ probe = NoProbe /\ evm = NoEvm /\ wire = NoWire

SpecResolve == InitResolveOnly /\ [][NextResolve]_vars


(***************************************************************************)
(* Properties of the poller and the intent processor.                      *)
(***************************************************************************)
\* the triggers of the transfer path whose pass completed: payout, intron and row
CompletedTransfers ==
    {i.trigger : i \in {j \in intron_txs : RowOf(j.tx).source = "receiver"}}

\* C1: once the order path has paid an OrderCreated log and inserted its row, any
\* further processing of that log leaves exactly one row for its transaction hash
\* and dispatches no further Tron payout for it.
C1_OrderReplayPaysOnce ==
    [][\A r \in ledger :
          r.source = "order" =>
             /\ PayoutsIn(tron_txs', r.eth_tx_hash) = PayoutsIn(tron_txs, r.eth_tx_hash)
             /\ Cardinality({x \in ledger' : x.eth_tx_hash = r.eth_tx_hash}) = 1]_vars

\* a replayed OrderCreated log is at its idempotency read and its row is there
C1_Witness ==
    \E c \in ChainNames :
        /\ ip[c] = "o_get"
        /\ RowOf(CurLog(c).tx).source = "order"
        /\ Cardinality(PayoutsFor(CurLog(c).tx)) = 1

\* C2: a Transfer log whose earlier pass completed (payout, intron and row) stops at
\* the idempotency read made on its own transaction hash when it is processed again:
\* the pass never gets past that read, so there is no second payout.
C2_TransferReplayStops ==
    \A c \in ChainNames :
        (CurLog(c).kind = "transfer" /\ CurLog(c).tx \in CompletedTransfers)
            => ip[c] \notin {"t_quote", "t_pay", "t_intron", "t_commit"}

\* C3: when a reprocessed OrderCreated log finds its own row with source = order and
\* is_claimed = false, the processor calls claim again (and pays nothing).
C3_OrderRowReclaimed ==
    [][\A c \in ChainNames :
          (/\ OGet(c)
           /\ RowOf(CurLog(c).tx).source = "order"
           /\ ~RowOf(CurLog(c).tx).is_claimed)
             => (ip'[c] = "o_reclaim" /\ tron_txs' = tron_txs)]_vars

\* the hashes of the logs fetched for the chunk chain c is processing
Fetched(c) ==
    {order_logs[c][k].tx : k \in 1..Len(order_logs[c])}
    \cup {transfer_logs[c][k].tx : k \in 1..Len(transfer_logs[c])}

\* the watermark file changes only to the ending block of a chunk all of whose
\* fetched logs have been handed to the processor; a restart leaves it alone
WatermarkWrittenLast ==
    /\ \A c \in ChainNames :
          persisted'[c] # persisted[c] =>
             /\ persisted'[c] = to_block[c]
             /\ Fetched(c) \subseteq handled[c]
             /\ ip[c] = "none"
    /\ Restart => persisted' = persisted

\* C6 as stated: the watermark is written last, and after any interruption of a
\* chunk the first chunk the restarted poller fetches starts where the
\* interrupted one started.
C6_Original ==
    [][/\ WatermarkWrittenLast
       /\ \A c \in ChainNames :
             (ChunkStart(c) /\ pc'[c] = "fetch_orders" /\ resume[c] # 0)
                => from_block[c] = resume[c]]_vars

\* C6 amended: the watermark is written last, and after an interruption of a chunk
\* the restarted poller starts at the interrupted chunk's first block provided a
\* watermark had been persisted for the chain; with none persisted it restarts at
\* the chain head of that moment, beyond the interrupted chunk.
C6_WatermarkAfterChunk ==
    [][/\ WatermarkWrittenLast
       /\ \A c \in ChainNames :
             (ChunkStart(c) /\ pc'[c] = "fetch_orders" /\ resume[c] # 0)
                => IF persisted[c] # 0
                   THEN from_block[c] = resume[c] /\ from_block[c] = persisted[c] + 1
                   ELSE from_block[c] > resume[c]]_vars

\* a restarted poller, with a watermark on file, starts the interrupted chunk again
C6_Witness ==
    \E c \in ChainNames :
        /\ pc[c] = "fetch_orders"
        /\ resume[c] # 0
        /\ persisted[c] # 0
        /\ from_block[c] = resume[c]
        /\ LogsInRange(c, "order") # {}

\* C7: whatever the point at which the relayer is stopped while it processes a
\* chunk, after the restart no triggering event of the order path (whose row is
\* keyed by the triggering hash itself) has received a second Tron payout.
C7_NoDoublePayoutAfterRestart ==
    \A l \in StaticLogs : l.kind = "order" => Cardinality(PayoutsFor(l.tx)) <= 1

\* C8: once a payout for a triggering event succeeded and the EVM call that
\* follows it (intron, claim) failed, no later step pays that event again.
C8_NoRepayAfterEvmFailure ==
    [][\A h \in evm_failed : PayoutsIn(tron_txs', h) = PayoutsIn(tron_txs, h)]_vars

\* C9: a row has is_claimed = true only if a claim call for the order of the row's
\* hash returned successfully.
C9_ClaimedOnlyAfterClaim ==
    \A r \in ledger : r.is_claimed => r.eth_tx_hash \in claim_txs

\* one row is claimed while another, whose claim failed, is not
C9_Witness ==
    /\ \E r \in ledger : r.is_claimed
    /\ \E r \in ledger : ~r.is_claimed /\ r.eth_tx_hash \in evm_failed

\* C10: every row carries the txid of an accepted Tron payout made for it: a payout
\* for the row's own hash on the order path, a payout for the transfer that the
\* row's intron transaction settled on the transfer path.
C10_RowOnlyAfterPayout ==
    \A r \in ledger :
        /\ r.tron_tx_hash # 0
        /\ \E t \in tron_txs :
              /\ t.txid = r.tron_tx_hash
              /\ r.source = "order" => t.trigger = r.eth_tx_hash
              /\ r.source = "receiver" =>
                    \E i \in intron_txs : i.tx = r.eth_tx_hash /\ i.trigger = t.trigger

\* rows of both paths exist
C10_Witness ==
    /\ \E r \in ledger : r.source = "order"
    /\ \E r \in ledger : r.source = "receiver"

(***************************************************************************)
(* Properties of the /resolve endpoint.                                    *)
(***************************************************************************)
\* the case-fix tasks for address a that have not ended
Running(a) == {t \in Requests : raddr[t] = a /\ tstate[t] \notin {"none", "done", "cancelled"}}

\* C4: overlapping /resolve requests for one address share one case-fix
\* computation: the requests awaiting at the same time await the same task, at most
\* one task per address is running, and while no CaseFix row exists for the address
\* the binary has been started for it at most once per computation.
C4_OneComputationPerAddress ==
    \A a \in Addresses :
        /\ \A r1, r2 \in Requests :
              (rstate[r1] = "await" /\ rstate[r2] = "await" /\ raddr[r1] = a /\ raddr[r2] = a)
                 => rtask[r1] = rtask[r2]
        /\ Cardinality(Running(a)) <= 1

\* C5: the cancellation of a request never cancels a case-fix computation.
C5_CancelKeepsComputation ==
    \A t \in Requests : tstate[t] # "cancelled"

\* C20: at every moment at most one case-fix subprocess is running: a computation
\* that waits for the limiter starts its subprocess only when no other runs.
C20_OneSubprocessAtATime ==
    Cardinality(procs) <= 1

\* the CaseFix rows of address a in table T
CachedIn(T, a) == {row \in T : row.lowercase = a}

\* C18: once a CaseFix row exists for an address, no step starts the tool for that
\* address, writes the cache for it, or brings a run of the tool for it to a
\* successful end; a lookup that finds the row returns the stored original; and
\* the tool never succeeds for an address for which another success is waiting
\* to be committed.
C18_CachedNeverRecomputed ==
    [][\A t \in Requests :
          LET a == raddr[t]
          IN  /\ (a \in Addresses /\ CachedIn(case_fixes, a) # {}) =>
                    /\ tool_runs'[a] = tool_runs[a]
                    /\ CachedIn(case_fixes', a) = CachedIn(case_fixes, a)
                    /\ ~(tstate[t] = "binary" /\ tstate'[t] = "commit")
                    /\ (tstate[t] = "check" /\ tstate'[t] = "done") =>
                          \E row \in CachedIn(case_fixes, a) : tresult'[t] = row.original
              /\ (tstate[t] = "binary" /\ tstate'[t] = "commit") =>
                    \A u \in Requests \ {t} : ~(raddr[u] = a /\ tstate[u] = "commit")]_vars

\* C19: when the tool ends without usable output the task ends with "" and writes
\* no row; the handler that takes that result answers 500 and writes no row; no
\* failure is ever cached, so that a later lookup for the address misses and goes
\* for the tool again.
C19_ToolFailureNotCached ==
    [][/\ \A t \in Requests :
             /\ (tstate[t] = "binary" /\ tstate'[t] = "done") =>
                   /\ tresult'[t] = ""
                   /\ case_fixes' = case_fixes /\ receivers' = receivers
             /\ (Respond(t) /\ tstate[rtask[t]] = "done" /\ tresult[rtask[t]] = "") =>
                   /\ status'[t] = 500 /\ rstate'[t] = "done"
                   /\ case_fixes' = case_fixes /\ receivers' = receivers
             /\ (tstate[t] = "check" /\ CachedIn(case_fixes, raddr[t]) = {}
                    /\ tstate'[t] # "check" /\ tstate'[t] # "cancelled") =>
                   \/ tstate'[t] = "wait_sem"
                   \/ tstate'[t] = "binary" /\ tool_runs'[raddr[t]] = tool_runs[raddr[t]] + 1
       /\ \A row \in case_fixes' : row.original # ""
       /\ \A r \in Requests : status'[r] = 200 => tresult'[rtask[r]] # ""]_vars

\* a request was answered 500 after the tool failed for its address, nothing is
\* cached for the address, and a later request for it has the tool running again
C19_Witness ==
    \E r1, r2 \in Requests :
        /\ r1 < r2 /\ raddr[r1] = raddr[r2]
        /\ status[r1] = 500 /\ tstate[rtask[r1]] = "done" /\ tresult[rtask[r1]] = ""
        /\ CachedIn(case_fixes, raddr[r1]) = {} /\ receivers = {}
        /\ tstate[r2] = "binary" /\ tool_runs[raddr[r1]] = 2

(***************************************************************************)
(* Failures of the chain node.                                             *)
(***************************************************************************)
\* C12: the watermark of a chain moves past a chunk only if the order logs and the
\* transfer logs the poller holds for the chunk are all the logs the chain has in
\* the chunk's block range: a chunk one of whose fetches failed is not passed.
C12_FailedFetchKeepsWatermark ==
    [][\A c \in ChainNames :
          persisted'[c] # persisted[c] =>
             /\ Len(order_logs[c]) = Cardinality(LogsInRange(c, "order"))
             /\ receiver_addresses[c] # {} =>
                   Len(transfer_logs[c]) =
                      Cardinality({l \in LogsInRange(c, "transfer") :
                                      l.to \in receiver_addresses[c]})]_vars

\* C13: no failure of the chain node ends a chain's polling task.
C13_PollerNeverDies ==
    \A c \in config_chains : pc[c] # "crashed"

(***************************************************************************)
(* The profitability gate in the processor.                                *)
(***************************************************************************)
\* C16: the pass of a new OrderCreated log (no row for its hash) that fails the
\* profitability gate ends at the gate: no payout, no claim, no row.
C16_UnprofitableDiscarded ==
    [][\A c \in ChainNames :
          (/\ ip[c] = "o_get" /\ ip'[c] # "o_get"
           /\ RowOf(CurLog(c).tx) = NoRow
           /\ ~is_profitable(c, CurLog(c).token, CurLog(c).input, CurLog(c).output))
             => /\ ip'[c] = "none"
                /\ ledger' = ledger /\ tron_txs' = tron_txs /\ claim_txs' = claim_txs]_vars

\* the order loop has passed an unprofitable log and nothing was done for it
C16_Witness ==
    \E c \in ChainNames :
        /\ pc[c] = "orders" /\ ip[c] = "none" /\ idx[c] > 1
        /\ LET l == order_logs[c][idx[c] - 1]
           IN  /\ ~is_profitable(c, l.token, l.input, l.output)
               /\ ~HasRow(l.tx) /\ PayoutsFor(l.tx) = {} /\ l.tx \notin claim_txs

\* the logs of all chains
AllLogs == UNION {ChainLogs(c) : c \in ChainNames}

\* C17: every accepted Tron payout is covered by what its triggering log brought
\* in: input >= paid amount + flat fee + floor(paid amount * bps / 10000) for the
\* log's token on the log's chain.
C17_PayoutsCovered ==
    \A t \in tron_txs :
        \A l \in AllLogs :
            l.tx = t.trigger => is_profitable(l.chain, l.token, l.input, t.amount)

(***************************************************************************)
(* utils.is_profitable on its own: one call, its arguments drawn from the  *)
(* chains' fee schedules, configured and unknown token addresses in either *)
(* case, and all amounts up to MaxAmount.                                  *)
(***************************************************************************)
ProbeChains == {"c1", "c2", "c3"}
ProbeTokens == {"0xAA", "0xaa", "0xBB", "0xCC"}
Amounts == 0..MaxAmount

InitProfit ==
    /\ InitPoller({}, {}) /\ InitResolve /\ wire = NoWire /\ evm = NoEvm
    /\ probe \in [chain : ProbeChains, token : ProbeTokens, input : Amounts, output : Amounts,
                   done : {FALSE}, result : {FALSE}]

\* the call returns
Evaluate ==
    /\ ~probe.done
    /\ probe' = [probe EXCEPT !.done = TRUE,
                              !.result = is_profitable(probe.chain, probe.token,
                                                       probe.input, probe.output)]
    /\ UNCHANGED <<pollerVars, receivers, resolveVars, wire, evm>>

SpecProfit == InitProfit /\ [][Evaluate]_vars

C15_Monotone ==
    probe.done =>
       /\ probe.result =>
             \A i \in Amounts :
                 i >= probe.input => is_profitable(probe.chain, probe.token, i, probe.output)
       /\ ~probe.result =>
             \A o \in Amounts :
                 o >= probe.output => ~is_profitable(probe.chain, probe.token, probe.input, o)

\* a profitable call that has larger inputs above it and turns unprofitable at
\* some larger output
C15_Witness ==
    /\ probe.done /\ probe.result
    /\ probe.input < MaxAmount
    /\ \E o \in Amounts :
          o > probe.output /\ ~is_profitable(probe.chain, probe.token, probe.input, o)

(***************************************************************************)
(* The ledger's primary key.                                               *)
(***************************************************************************)
\* C11: the ledger never holds two rows of one eth_tx_hash, and the commit of a
\* row whose key is already there leaves the ledger as it is; the payout txid and
\* the source of a row never change.
C11_OneRowPerHash ==
    [][/\ \A r1, r2 \in ledger' : r1.eth_tx_hash = r2.eth_tx_hash => r1 = r2
       /\ \A r \in ledger :
             \E x \in ledger' : /\ x.eth_tx_hash = r.eth_tx_hash
                                /\ x.tron_tx_hash = r.tron_tx_hash
                                /\ x.source = r.source
       /\ \A c \in ChainNames :
             (ip[c] = "o_commit" /\ ip'[c] # "o_commit" /\ HasRow(CurLog(c).tx))
                => ledger' = ledger]_vars

\* two pollers have each paid for a log of the same hash and tried to insert its
\* row in this run; the ledger holds one row for the hash
C11_Witness ==
    \E c1, c2 \in ChainNames :
        /\ c1 # c2 /\ pc[c1] = "save" /\ pc[c2] = "save"
        /\ \E h \in handled[c1] \cap handled[c2] :
              /\ Cardinality(PayoutsFor(h)) = 2
              /\ Cardinality({r \in ledger : r.eth_tx_hash = h}) = 1

\* C21: however often and however concurrently an address is resolved, no two
\* Receiver rows share a tron_address or an eth_address, and every request
\* answered 200 finds exactly one row for its canonical address, holding the
\* receiver address the factory derives for it.
C21_OneReceiverPerAddress ==
    /\ \A x, y \in receivers :
          (x.tron_address = y.tron_address \/ x.eth_address = y.eth_address) => x = y
    /\ \A r \in Requests :
          status[r] = 200 =>
             LET rows == {x \in receivers : x.tron_address = Canonical(raddr[r])}
             IN  /\ Cardinality(rows) = 1
                 /\ \A x \in rows : x.eth_address = ReceiverAddress(Canonical(raddr[r]))

\* the same address resolved twice with success, and a third request for it that
\* ended in an error after its case-fix had succeeded
C21_Witness ==
    \E r1, r2, r3 \in Requests :
        /\ r1 # r2 /\ r1 # r3 /\ r2 # r3
        /\ raddr[r1] = raddr[r2] /\ raddr[r2] = raddr[r3]
        /\ status[r1] = 200 /\ status[r2] = 200 /\ status[r3] = 500
        /\ Cardinality(receivers) = 1

\* a step that stays within one run of the poller of chain c
SameRun(c) == ~(pc[c] # "boot" /\ pc'[c] = "boot")

\* C24: within one run of a chain's poller no step lowers its watermark, neither
\* the one in memory nor the persisted one, whatever fails and is retried.
C24_WatermarkNeverDecreases ==
    [][\A c \in config_chains :
          SameRun(c) => /\ last_block'[c] >= last_block[c]
                        /\ persisted'[c] >= persisted[c]]_vars

\* the write of a chunk's watermark failed after an earlier chunk's was persisted:
\* the watermark in memory is ahead of the persisted one and the chunk is retried
C24_Witness ==
    \E c \in config_chains :
        /\ pc[c] = "chunk_sleep"
        /\ persisted[c] > 0
        /\ last_block[c] > persisted[c]

\* the keys of the ledger's rows
Keys(L) == {r.eth_tx_hash : r \in L}

\* C25: while the pass of chain c handles an OrderCreated log whose hash has a row of
\* source "receiver", each of its steps leaves the payouts, the intron calls and
\* the set of ledger keys alone; if the row is claimed the pass returns at once
\* with no chain call; if it is not, the pass goes to claim_order once (unless the
\* read of the row raised, which ends the pass), and the row's is_claimed is set
\* only after that call returned a transaction hash.
C25_ReceiverRowOnlyClaimed ==
    [][\A c \in config_chains :
          (/\ ip[c] \in {"o_get", "o_reclaim", "o_reflip"}
           /\ ip'[c] # ip[c]
           /\ RowOf(CurLog(c).tx).source = "receiver")
          => LET key == CurLog(c).tx
                 row == RowOf(key)
             IN  /\ tron_txs' = tron_txs
                 /\ intron_txs' = intron_txs
                 /\ Keys(ledger') = Keys(ledger)
                 /\ row.is_claimed =>
                       /\ ip[c] = "o_get" /\ ip'[c] = "none"
                       /\ claim_txs' = claim_txs /\ ledger' = ledger
                 /\ (~row.is_claimed /\ ip[c] = "o_get") =>
                       /\ ip'[c] = IF SameRun(c) /\ raised'[c] = raised[c] THEN "o_reclaim" ELSE "none"
                       /\ claim_txs' = claim_txs /\ ledger' = ledger
                 /\ (~row.is_claimed /\ ip[c] = "o_reclaim") =>
                       /\ ledger' = ledger
                       /\ \/ ip'[c] = "o_reflip" /\ key \in claim_txs'
                          \/ ip'[c] = "none"
                 /\ (~row.is_claimed /\ ip[c] = "o_reflip") =>
                       /\ key \in claim_txs /\ claim_txs' = claim_txs
                       /\ ip'[c] = "none"
                       /\ ledger' \in {ledger, SetClaimed(ledger, key)}]_vars

\* a receiver-filled order was claimed from its OrderCreated log and never paid
\* for a second time, and that log is being read again
C25_Witness ==
    \E c \in config_chains :
        /\ ip[c] = "o_get"
        /\ RowOf(CurLog(c).tx).source = "receiver"
        /\ RowOf(CurLog(c).tx).is_claimed
        /\ CurLog(c).tx \in claim_txs
        /\ PayoutsFor(CurLog(c).tx) = {}

\* C26: the pass that reads an OrderCreated log whose hash has a row of source
\* "order" returns at once: no payout, no claim, no intron call, the ledger as it was.
C26_OrderRowIsNoOp ==
    [][\A c \in config_chains :
          (/\ ip[c] = "o_get"
           /\ ip'[c] # ip[c]
           /\ RowOf(CurLog(c).tx).source = "order")
          => /\ ip'[c] = "none"
             /\ tron_txs' = tron_txs
             /\ claim_txs' = claim_txs
             /\ intron_txs' = intron_txs
             /\ ledger' = ledger]_vars

\* a paid order whose claim never went through is read again
C26_Witness ==
    \E c \in config_chains :
        /\ ip[c] = "o_get"
        /\ RowOf(CurLog(c).tx).source = "order"
        /\ ~RowOf(CurLog(c).tx).is_claimed
        /\ CurLog(c).tx \notin claim_txs
        /\ PayoutsFor(CurLog(c).tx) # {}

\* C27: the order path pays, then commits the row unclaimed, then claims, then sets
\* is_claimed.  At the commit the payout of this pass is on Tron and no claim was
\* made for the order; at the claim the row is in the ledger, unclaimed, with that
\* payout's txid; at the flip the claim has gone through; and no order was ever
\* claimed without its row and its payout, nor marked claimed without its claim.
C27_OrderStepsInOrder ==
    /\ \A c \in config_chains :
          LET key == CurLog(c).tx
              row == RowOf(key)
              paid == \E t \in PayoutsFor(key) : t.txid = tx_hash[c]
          IN  /\ ip[c] = "o_commit" => paid /\ key \notin claim_txs
              /\ ip[c] \in {"o_claim", "o_flip"} =>
                    /\ paid
                    /\ row.source = "order" /\ ~row.is_claimed
                    /\ row.tron_tx_hash = tx_hash[c]
              /\ ip[c] = "o_claim" => key \notin claim_txs
              /\ ip[c] = "o_flip" => key \in claim_txs
    /\ \A r \in ledger :
          r.source = "order" =>
             /\ PayoutsFor(r.eth_tx_hash) # {}
             /\ r.is_claimed => r.eth_tx_hash \in claim_txs
    /\ \A k \in claim_txs : HasRow(k)

\* an order went through all four steps, with a single payout
C27_Witness ==
    \E r \in ledger :
        /\ r.source = "order" /\ r.is_claimed
        /\ r.eth_tx_hash \in claim_txs
        /\ PayoutsFor(r.eth_tx_hash) = {[txid |-> r.tron_tx_hash, trigger |-> r.eth_tx_hash,
                                         amount |-> 900]}

\* C28: every row of source "receiver" is keyed by the hash of a mined intron()
\* transaction and carries the txid of an accepted payout made for the transfer
\* that transaction settled; it is unclaimed until a claim for it went through;
\* intron() is called, and was only ever mined, after the payout of the pass was
\* accepted; the pass reaches the commit only with both.
C28_TransferRowAfterBoth ==
    /\ \A r \in ledger :
          r.source = "receiver" =>
             /\ \E i \in intron_txs :
                   /\ i.tx = r.eth_tx_hash
                   /\ \E t \in PayoutsFor(i.trigger) : t.txid = r.tron_tx_hash
             /\ r.is_claimed => r.eth_tx_hash \in claim_txs
    /\ \A i \in intron_txs : PayoutsFor(i.trigger) # {}
    /\ \A c \in config_chains :
          LET paid == \E t \in PayoutsFor(CurLog(c).tx) : t.txid = tx_hash[c]
          IN  /\ ip[c] = "t_intron" => paid
              /\ ip[c] = "t_commit" =>
                    /\ paid
                    /\ \E i \in intron_txs : i.tx = receipt[c] /\ i.trigger = CurLog(c).tx

\* a transfer was paid and intron() failed, which left no row; it was paid again,
\* intron() went through and the row is stored
C28_Witness ==
    \E r \in ledger :
        /\ r.source = "receiver" /\ ~r.is_claimed
        /\ \E i \in intron_txs :
              /\ i.tx = r.eth_tx_hash
              /\ i.trigger \in evm_failed
              /\ Cardinality(PayoutsFor(i.trigger)) = 2

\* C29: the step in which send_usdt fails for an order ends the pass of its log:
\* the ledger and the claims stay as they were, and the loop moves on to the
\* next log without a commit or a claim for this one.
C29_FailedPayoutAborts ==
    [][\A c \in config_chains :
          (/\ ip[c] = "o_pay"
           /\ ip'[c] # ip[c]
           /\ tron_txs' = tron_txs)
          => /\ ip'[c] = "none"
             /\ ledger' = ledger
             /\ claim_txs' = claim_txs
             /\ SameRun(c) => idx'[c] = idx[c] + 1]_vars

\* the payout of a profitable order has just failed: the loop is past its log, and
\* the order has no payout, no row and no claim
C29_Witness ==
    \E c \in config_chains :
        /\ pc[c] = "orders" /\ ip[c] = "none" /\ idx[c] > 1
        /\ LET l == order_logs[c][idx[c] - 1]
           IN  /\ is_profitable(c, l.token, l.input, l.output)
               /\ ~HasRow(l.tx) /\ PayoutsFor(l.tx) = {} /\ l.tx \notin claim_txs

\* the transaction hashes of a list of logs
TxOf(logs) == {logs[i].tx : i \in 1..Len(logs)}
TxLogs(logs) == {logs[i] : i \in 1..Len(logs)}

\* C30: within a run, the fetch of the OrderCreated logs is followed by the fetch of
\* the Transfer logs and that one by the processing loops, whether either fetch
\* failed or not; a fetch yields the chunk's logs of its class or the empty list
\* and leaves the other class's list alone; and when the loops are through, every
\* log of either list has been handed to the processor.
C30_FetchFailureIsPerClass ==
    [][\A c \in config_chains :
          /\ (pc[c] = "fetch_orders" /\ pc'[c] # pc[c] /\ SameRun(c)) =>
                /\ pc'[c] = "fetch_transfers"
                /\ order_logs'[c] \in {<<>>, InChainOrder(LogsInRange(c, "order"))}
          /\ (pc[c] = "fetch_transfers" /\ pc'[c] # pc[c] /\ SameRun(c)) =>
                /\ pc'[c] = "orders"
                /\ order_logs'[c] = order_logs[c]
                /\ transfer_logs'[c] \in
                      {<<>>, InChainOrder({l \in LogsInRange(c, "transfer") :
                                             l.to \in receiver_addresses[c]})}
          /\ (pc[c] \in {"orders", "transfers"} /\ SameRun(c)) =>
                /\ order_logs'[c] = order_logs[c]
                /\ transfer_logs'[c] = transfer_logs[c]
          /\ (pc[c] = "orders" /\ pc'[c] = "transfers") => TxOf(order_logs[c]) \subseteq handled'[c]
          /\ (pc[c] = "transfers" /\ pc'[c] = "save") =>
                TxOf(order_logs[c]) \cup TxOf(transfer_logs[c]) \subseteq handled'[c]]_vars

\* the chunk's OrderCreated logs could not be fetched, its Transfer logs were, and
\* each of them has been processed
C30_Witness ==
    \E c \in config_chains :
        /\ pc[c] = "save"
        /\ order_logs[c] = <<>> /\ LogsInRange(c, "order") # {}
        /\ transfer_logs[c] # <<>>
        /\ TxOf(transfer_logs[c]) = handled[c]

(***************************************************************************)
(* One /resolve request at the level of its bytes (endpoints.py 56-173).   *)
(* A string is a sequence of one-character strings, a buffer a sequence of *)
(* byte values.  The request bodies are: a body that is not JSON, a JSON   *)
(* object without "data", and "data" strings: the empty string, "0x",      *)
(* strings that are not hex, and the hex, with and without the "0x"        *)
(* prefix, of DNS-wire buffers [length][subdomain][suffix].                *)
(***************************************************************************)
HexDigits == <<"0", "1", "2", "3", "4", "5", "6", "7", "8", "9", "a", "b", "c", "d", "e", "f">>

IsHexDigit(ch) == \E i \in 1..Len(HexDigits) : HexDigits[i] = ch
HexValue(ch) == (CHOOSE i \in 1..Len(HexDigits) : HexDigits[i] = ch) - 1

\* bytes.hex(): two digits per byte, high nibble first
hex(b) ==
    [i \in 1..(2 * Len(b)) |->
        IF i % 2 = 1 THEN HexDigits[(b[(i + 1) \div 2] \div 16) + 1]
                     ELSE HexDigits[(b[i \div 2] % 16) + 1]]

\* str.lstrip(chars): drops every leading character that is one of chars
RECURSIVE lstrip(_, _)
lstrip(s, chars) == IF s # <<>> /\ s[1] \in chars THEN lstrip(Tail(s), chars) ELSE s

\* a handler that removes the prefix "0x" and nothing else
strip_domainPrefixOnly(s) ==
    IF Len(s) >= 2 /\ s[1] = "0" /\ s[2] = "x" THEN SubSeq(s, 3, Len(s)) ELSE s

\* line 76: domain.lstrip("0x")
strip_domain(s) == lstrip(s, {"0", "x"})

\* bytes.fromhex(s) raises unless s is an even number of hex digits
fromhex_raises(s) == Len(s) % 2 # 0 \/ \E i \in 1..Len(s) : ~IsHexDigit(s[i])
fromhex(s) == [i \in 1..(Len(s) \div 2) |-> 16 * HexValue(s[2 * i - 1]) + HexValue(s[2 * i])]

\* b[lo:hi] and b[lo:] of Python
Slice(b, lo, hi) == SubSeq(b, lo + 1, Min(hi, Len(b)))
SliceFrom(b, lo) == SubSeq(b, lo + 1, Len(b))

\* bytes.decode().lower() on ASCII text
lower(b) == [i \in 1..Len(b) |-> IF b[i] >= 65 /\ b[i] <= 90 THEN b[i] + 32 ELSE b[i]]

\* "TEVr7jCiRofduU2w", an address in canonical case, and "tevr7jcirofduu2x", a
\* lower-cased name no case of which is an address
CanonAddr == <<84, 69, 86, 114, 55, 106, 67, 105, 82, 111, 102, 100, 117, 85, 50, 119>>
NoAddr == <<116, 101, 118, 114, 55, 106, 99, 105, 114, 111, 102, 100, 117, 117, 50, 120>>

\* what the case-fix task hands back for a lower-cased name besides "": the
\* canonical case of the address it is the lower case of, or a string read from
\* the tool's standard output that is no address
CaseFixOutput(name) == IF name = lower(CanonAddr) THEN CanonAddr ELSE name

\* line 134: b58decode_check raises for anything but an address with a valid checksum
b58decode_check_raises(a) == a # CanonAddr

Subdomains == {lower(CanonAddr), CanonAddr, NoAddr, <<>>, <<116, 97>>}
Suffixes == {<<>>, <<0>>, <<3, 101, 116, 104, 0>>, <<16>> \o lower(CanonAddr) \o <<0>>}
Buffers == {<<Len(sub)>> \o sub \o suf : sub \in Subdomains, suf \in Suffixes}
              \cup {<<16, 116, 101>>}
DataStrings ==
    {<<>>, <<"0", "x">>, <<"0", "x", "g", "g">>, <<"0", "x", "2">>}
      \cup {prefix \o hex(b) : prefix \in {<<>>, <<"0", "x">>}, b \in Buffers}
Bodies ==
    {[json |-> FALSE, has_data |-> FALSE, data |-> <<>>],
     [json |-> TRUE, has_data |-> FALSE, data |-> <<>>]}
      \cup {[json |-> TRUE, has_data |-> TRUE, data |-> d] : d \in DataStrings}

InitWire ==
    /\ InitPoller({}, {}) /\ InitResolve /\ probe = NoProbe /\ evm = NoEvm
    /\ \E body \in Bodies :
          wire = [NoWire EXCEPT !.st = "received", !.json = body.json,
                                !.has_data = body.has_data, !.data = body.data]

wireFrame == UNCHANGED <<pollerVars, receivers, resolveVars, probe, evm>>

Answer(code) == wire' = [wire EXCEPT !.st = "done", !.status = code]

\* lines 63-88: the body is read, "data" is looked up and decoded, and the
\* subdomain is cut out of the buffer; the errors of lines 64, 86 and 87 are those
\* of the handler's last `except Exception`
WParse ==
    /\ wire.st = "received"
    /\ IF ~wire.json THEN Answer(500)
       ELSE IF ~wire.has_data \/ wire.data = <<>> THEN Answer(400)
       ELSE IF fromhex_raises(strip_domain(wire.data)) THEN Answer(400)
       ELSE LET domain == fromhex(strip_domain(wire.data))
            IN  IF domain = <<>> THEN Answer(500)
                ELSE wire' = [wire EXCEPT
                                 !.st = "await",
                                 !.domain = domain,
                                 !.lowercased = lower(Slice(domain, 1, domain[1] + 1))]
    /\ wireFrame

\* lines 116-123: the case-fix task returns "" or an address
WCaseFix ==
    /\ wire.st = "await"
    /\ \E out \in {<<>>, CaseFixOutput(wire.lowercased)} :
          IF out = <<>> THEN Answer(500)
          ELSE wire' = [wire EXCEPT !.st = "decode", !.fixed = out]
    /\ wireFrame

\* lines 124-130: the request is cancelled while it awaits the task
WCancel ==
    /\ wire.st = "await"
    /\ wire' = [wire EXCEPT !.st = "done", !.status = 499, !.cancelled = TRUE]
    /\ wireFrame

\* lines 132-140: the address is decoded
WDecode ==
    /\ wire.st = "decode"
    /\ IF b58decode_check_raises(wire.fixed) THEN Answer(400)
       ELSE wire' = [wire EXCEPT !.st = "store"]
    /\ wireFrame

\* lines 142-173: the receiver is derived and stored, which may raise, and the
\* response buffer is built
WRespond ==
    /\ wire.st = "store"
    /\ \/ Answer(500)
       \/ LET subdomain_length == wire.domain[1]
          IN  wire' = [wire EXCEPT
                          !.st = "done", !.status = 200,
                          !.response = <<subdomain_length>> \o wire.fixed
                                          \o SliceFrom(wire.domain, subdomain_length + 1)]
    /\ wireFrame

NextWire == WParse \/ WCaseFix \/ WCancel \/ WDecode \/ WRespond

SpecWire == InitWire /\ [][NextWire]_vars

\* the buffer the request's 0x-prefixed hex stands for
SentBuffer == fromhex(strip_domainPrefixOnly(wire.data))
SentHexIsValid == ~fromhex_raises(strip_domainPrefixOnly(wire.data))

\* C22: a request answered 200 whose hex stands for a buffer [L][L subdomain
\* bytes][suffix] gets the buffer [L][the canonical address][the same suffix].
C22_ResponseKeepsEnvelope ==
    (/\ wire.status = 200
     /\ SentHexIsValid
     /\ Len(SentBuffer) >= 1
     /\ Len(SentBuffer) >= SentBuffer[1] + 1)
    => wire.response = <<SentBuffer[1]>> \o wire.fixed \o SliceFrom(SentBuffer, SentBuffer[1] + 1)

\* C23: a request without "data", with data that is not hex or with data that
\* stands for the empty buffer is answered 400, and so is one whose address does
\* not decode; a request cancelled while it awaits the case-fix is answered 499.
C23_BadInputIs400 ==
    wire.st = "done" =>
       /\ (wire.json /\ (~wire.has_data \/ ~SentHexIsValid \/ SentBuffer = <<>>))
             => wire.status = 400
       /\ (wire.fixed # <<>> /\ b58decode_check_raises(wire.fixed)) => wire.status = 400
       /\ wire.cancelled => wire.status = 499

\* C31: when the processing of a log of the chunk has raised, the loops still hand
\* every log of both lists to the processor before the watermark is written, and
\* once the chunk is left the watermark in memory is the chunk's ending block, and
\* so is the persisted one when its write went through.
C31_RaiseSkipsOnlyItsLog ==
    \A c \in config_chains :
        raised[c] # {} =>
           /\ pc[c] \in {"transfers", "save", "chunk", "chunk_sleep"} =>
                 TxOf(order_logs[c]) \subseteq handled[c]
           /\ pc[c] \in {"save", "chunk", "chunk_sleep"} =>
                 TxOf(transfer_logs[c]) \subseteq handled[c]
           /\ pc[c] \in {"chunk", "chunk_sleep"} => last_block[c] = to_block[c]
           /\ (pc[c] = "chunk" /\ from_block[c] > to_block[c]) => persisted[c] = to_block[c]

\* the first OrderCreated log of a chunk raised, the OrderCreated log and the
\* Transfer log after it were processed, and the chunk's watermark is persisted
C31_Witness ==
    \E c \in config_chains :
        /\ pc[c] = "chunk" /\ from_block[c] > to_block[c]
        /\ Len(order_logs[c]) = 2 /\ Len(transfer_logs[c]) = 1
        /\ raised[c] = {order_logs[c][1].tx}
        /\ persisted[c] = to_block[c]
        /\ HasRow(order_logs[c][2].tx)
        /\ PayoutsFor(transfer_logs[c][1].tx) # {}

(***************************************************************************)
(* The chunk loop over long gaps: one chain whose poller starts from a      *)
(* persisted watermark with the head up to MaxChunks chunks ahead of it,   *)
(* the head jumping further while the poller runs.  No receiver is known   *)
(* and the gap holds no log.                                               *)
(***************************************************************************)
Watermarks == {1, 500}
HeadValues ==
    {1, 2, 501, 999, 1000} \cup
    {k * chunk_size + e : k \in 1..(MaxChunks - 1), e \in {0, 1, 2, 500, 501}}

InitChunk ==
    /\ \E w \in Watermarks, h \in HeadValues :
          /\ persisted = [c \in ChainNames |-> IF c = "c2" THEN w ELSE 0]
          /\ head = [c \in ChainNames |-> IF c = "c2" THEN h ELSE 0]
    /\ config_chains = {"c2"}
    /\ intron_txs = {} /\ tron_txs = {} /\ claim_txs = {}
    /\ ledger = {} /\ receivers = {}
    /\ pc = [c \in ChainNames |-> IF c = "c2" THEN "boot" ELSE "off"]
    /\ last_block = [c \in ChainNames |-> 0]
    /\ current_block = [c \in ChainNames |-> 0]
    /\ from_block = [c \in ChainNames |-> 0]
    /\ to_block = [c \in ChainNames |-> 0]
    /\ receiver_addresses = [c \in ChainNames |-> {}]
    /\ order_logs = [c \in ChainNames |-> <<>>]
    /\ transfer_logs = [c \in ChainNames |-> <<>>]
    /\ idx = [c \in ChainNames |-> 1]
    /\ ip = [c \in ChainNames |-> "none"]
    /\ tx_hash = [c \in ChainNames |-> 0]
    /\ receipt = [c \in ChainNames |-> 0]
    /\ out_amount = [c \in ChainNames |-> 0]
    /\ handled = [c \in ChainNames |-> {}]
    /\ resume = [c \in ChainNames |-> 0]
    /\ evm_failed = {}
    /\ raised = [c \in ChainNames |-> {}]
    /\ InitResolve /\ probe = NoProbe /\ evm = NoEvm /\ wire = NoWire

\* the environment mines blocks while the poller works
HeadJump(c) ==
    /\ c \in config_chains
    /\ \E h \in HeadValues : h > head[c] /\ head' = [head EXCEPT ![c] = h]
    /\ UNCHANGED <<evm, wire, probe, resolveVars, config_chains, intron_txs, tron_txs, claim_txs, storeVars, pc, loopVars,
                   passVars, histVars>>

NextChunk ==
    \E c \in ChainNames :
          \/ Boot(c) \/ ReadReceivers(c) \/ ReadHead(c) \/ ChunkStart(c)
          \/ FetchOrders(c) \/ FetchTransfers(c) \/ OrdersDone(c) \/ TransfersDone(c)
          \/ SaveLastBlock(c) \/ ChunkSleep(c) \/ Sleep(c)
          \/ HeadJump(c)

SpecChunk == InitChunk /\ [][NextChunk]_vars

\* C32: a cycle that reads a head above the watermark starts its first range at the
\* block after the watermark; every range lies within the head that was read, is
\* chunk_size blocks long unless it ends at that head, and never longer; the range
\* after a persisted one starts at the block after it; and the chunk loop is left
\* only with the watermark, in memory and persisted, at the head that was read.
C32_ChunksTileTheGap ==
    [][\A c \in config_chains :
          /\ (pc[c] = "head" /\ pc'[c] = "chunk") =>
                /\ current_block'[c] = head[c]
                /\ from_block'[c] = last_block[c] + 1
                /\ from_block'[c] = persisted[c] + 1
          /\ (pc[c] = "chunk" /\ pc'[c] = "fetch_orders") =>
                /\ from_block[c] = persisted[c] + 1
                /\ from_block[c] <= to_block'[c] /\ to_block'[c] <= current_block[c]
                /\ to_block'[c] - from_block[c] + 1 <= 1000
                /\ to_block'[c] < current_block[c] => to_block'[c] - from_block[c] + 1 = 1000
          /\ (pc[c] = "save" /\ pc'[c] = "chunk") =>
                /\ persisted'[c] = to_block[c]
                /\ from_block'[c] = to_block[c] + 1
          /\ (pc[c] = "chunk" /\ pc'[c] = "sleep") =>
                /\ last_block[c] = current_block[c]
                /\ persisted[c] = current_block[c]]_vars

\* the third range of a cycle that found the head 2500 blocks above the watermark
C32_Witness ==
    \E c \in config_chains :
        /\ pc[c] = "save"
        /\ current_block[c] = 2501
        /\ from_block[c] = 2002 /\ to_block[c] = 2501
        /\ persisted[c] = 2001

\* C33: a chunk is only ever started at the block after the persisted watermark,
\* so the next chunk is not started before the current one's watermark is written;
\* and an attempt made after a failed write (the watermark in memory is then ahead
\* of the persisted one) covers the same range as the failed one.
C33_ChunkRetriedUntilPersisted ==
    \A c \in config_chains :
        /\ pc[c] \in InChunk \cup {"chunk"} => from_block[c] = persisted[c] + 1
        /\ (pc[c] \in InChunk /\ last_block[c] # persisted[c]) =>
              /\ last_block[c] = to_block[c]
              /\ from_block[c] <= to_block[c]

\* the write of the watermark of the second of three chunks failed and the chunk
\* is being fetched again
C33_Witness ==
    \E c \in config_chains :
        /\ pc[c] = "fetch_orders"
        /\ persisted[c] = 1001 /\ from_block[c] = 1002
        /\ last_block[c] = 2001 /\ to_block[c] = 2001
        /\ current_block[c] > to_block[c]

\* the transaction hashes of the first k logs of a list
TxBefore(logs, k) == {logs[i].tx : i \in 1..(k - 1)}

\* C34: a log is handed to the Intent Processor only when the processing of the
\* previous one has returned; it is the first log of its list not handed over yet,
\* the lists being in the order of the fetch; and a Transfer log is handed over
\* only when every OrderCreated log of the chunk has been.
C34_LogsFedInOrder ==
    [][\A c \in config_chains :
          (handled'[c] # handled[c] /\ SameRun(c) /\ pc'[c] # "fetch_orders") =>
             /\ ip[c] = "none" /\ ip'[c] # "none"
             /\ pc[c] \in {"orders", "transfers"}
             /\ order_logs[c] = InChainOrder(TxLogs(order_logs[c]))
             /\ transfer_logs[c] = InChainOrder(TxLogs(transfer_logs[c]))
             /\ pc[c] = "orders" =>
                   /\ idx[c] <= Len(order_logs[c])
                   /\ handled[c] = TxBefore(order_logs[c], idx[c])
                   /\ handled'[c] = TxBefore(order_logs[c], idx[c] + 1)
             /\ pc[c] = "transfers" =>
                   /\ idx[c] <= Len(transfer_logs[c])
                   /\ handled[c] = TxOf(order_logs[c]) \cup TxBefore(transfer_logs[c], idx[c])
                   /\ handled'[c] = TxOf(order_logs[c]) \cup TxBefore(transfer_logs[c], idx[c] + 1)
      ]_vars

\* the Transfer log of a chunk is being processed after its two OrderCreated logs
C34_Witness ==
    \E c \in config_chains :
        /\ pc[c] = "transfers" /\ ip[c] # "none" /\ idx[c] = 1
        /\ Len(order_logs[c]) = 2 /\ Len(transfer_logs[c]) = 1
        /\ order_logs[c][1].tx < order_logs[c][2].tx
        /\ handled[c] = TxOf(order_logs[c]) \cup TxOf(transfer_logs[c])

\* C35: the watermark of a chain changes only in the save step of that chain's
\* own poller, which writes the end of its own chunk; a step of one chain's poller,
\* a failed save included, leaves the watermark of every other chain as it was.
C35_WatermarkPerChain ==
    [][\A c \in config_chains :
          /\ persisted'[c] # persisted[c] =>
                /\ pc[c] = "save" /\ pc'[c] = "chunk"
                /\ persisted'[c] = to_block[c]
          /\ (pc'[c] # pc[c] \/ ip'[c] # ip[c]) =>
                \A d \in ChainNames \ {c} : persisted'[d] = persisted[d]
      ]_vars

\* one chain has persisted its watermark while the write of the other chain's
\* watermark has failed and is waiting to be retried
C35_Witness ==
    \E c, d \in config_chains :
        /\ c # d
        /\ persisted[c] > 0 /\ pc[c] \in InChunk
        /\ pc[d] = "chunk_sleep" /\ last_block[d] > persisted[d]
        /\ persisted[d] # persisted[c]

\* C36: every Receiver row and every CaseFix row of a state is, with all its
\* fields, a row of the next state: rows are added, never changed or removed.
C36_RowsOnlyAdded ==
    [][/\ receivers \subseteq receivers'
       /\ case_fixes \subseteq case_fixes'
       /\ \A x \in receivers : \A y \in receivers' : y.id = x.id => y = x
       /\ \A x \in case_fixes : \A y \in case_fixes' : y.lowercase = x.lowercase => y = x
      ]_vars

\* both addresses have their CaseFix and Receiver rows, and a later insert for one
\* of them was attempted and refused
C36_Witness ==
    /\ Cardinality(receivers) = 2 /\ Cardinality(case_fixes) = 2
    /\ \E r \in Requests : rstate[r] = "done" /\ status[r] = 500 /\ tresult[rtask[r]] # ""

(***************************************************************************)
(* The poller next to the resolve endpoint: Receiver rows appear while the *)
(* poller of a chain is running.                                           *)
(***************************************************************************)
\* endpoints.py 56-173 run to its end for an address whose case fix succeeds and
\* whose Receiver row is not there yet: the row is inserted (lines 151-157)
Resolved(a) ==
    /\ LET fixed == Canonical(a)
           row == [id |-> Cardinality(receivers) + 1,
                   eth_address |-> ReceiverAddress(fixed), tron_address |-> fixed]
       IN  /\ ~ReceiverRefused(receivers, row)
           /\ receivers' = receivers \cup {row}
    /\ UNCHANGED <<pollerVars, resolveVars, probe, wire, evm>>

\* a fresh deployment: one chain, no Receiver row yet
InitStale == InitPoller({"c1"}, {}) /\ InitResolve /\ probe = NoProbe /\ evm = NoEvm /\ wire = NoWire

NextStale ==
    \/ \E c \in ChainNames : Poller(c) \/ Processor(c) \/ HeadAdvance(c)
    \/ \E a \in Addresses : Resolved(a)

SpecStale == InitStale /\ [][NextStale]_vars

\* C37: when a chain's poller fetches the Transfer logs of a range, its filter
\* holds the address of every Receiver row there is at that moment, and every
\* Transfer log of the range to such an address is in the fetched list that is
\* then fed to the Intent Processor.
C37_FetchCoversKnownReceivers ==
    [][\A c \in config_chains :
          (pc[c] = "fetch_transfers" /\ pc'[c] = "orders") =>
             /\ {r.eth_address : r \in receivers} \subseteq receiver_addresses[c]
             /\ \A l \in LogsInRange(c, "transfer") :
                   ReceiverFor(l.to) # {} => l \in TxLogs(transfer_logs'[c])
      ]_vars

\* C38: a request whose lookup found no Receiver row, and which therefore inserts
\* one, is answered 200, whatever other requests for the same address did between
\* its lookup and its insert.
C38_OverlappingResolvesSucceed ==
    [][\A r \in Requests :
          (rstate[r] = "insert" /\ rstate'[r] = "done") => status'[r] = 200]_vars

(***************************************************************************)
(* The relayer account on the EVM chains: ethereum.call_intron and         *)
(* ethereum.claim_order, one step per await.  evm[c] holds the running     *)
(* call of chain c's poller (call, kind, nonce, id), the number of calls   *)
(* made, the account's transaction count at the latest block (mined), the  *)
(* account's transactions the network holds unmined (pending), those it    *)
(* ever accepted (sent) and the ids of those mined (receipts).             *)
(***************************************************************************)
NonceChains == {"c1", "c2"}

\* blockchain_listener.py 70, 121, 161 within the loops of 252-265: the processor
\* of chain c awaits call_intron or claim_order; the previous call has returned
CallStart(c, k) ==
    /\ evm[c].call = "idle" /\ evm[c].calls < MaxCalls
    /\ evm' = [evm EXCEPT ![c].call = "nonce", ![c].kind = k,
                          ![c].calls = @ + 1, ![c].id = evm[c].calls + 1]
    /\ UNCHANGED <<pollerVars, receivers, resolveVars, probe, wire>>

\* ethereum.py 83, 139: get_transaction_count(address) is the count at the latest
\* block; an RPC error ends the call (lines 108-110, 158-160)
GetNonce(c) ==
    /\ evm[c].call = "nonce"
    /\ \/ evm' = [evm EXCEPT ![c].nonce = evm[c].mined, ![c].call = "send"]
       \/ evm' = [evm EXCEPT ![c].call = "idle"]
    /\ UNCHANGED <<pollerVars, receivers, resolveVars, probe, wire>>

\* ethereum.py 88-100, 137-149: the transaction is built on the nonce read, signed
\* and sent; the node takes it or answers with an error
SendRaw(c) ==
    /\ evm[c].call = "send"
    /\ LET tx == [id |-> evm[c].id, nonce |-> evm[c].nonce, kind |-> evm[c].kind]
       IN  \/ /\ tx.nonce >= evm[c].mined
              /\ evm' = [evm EXCEPT ![c].pending = @ \cup {tx}, ![c].sent = @ \cup {tx},
                                    ![c].call = "wait"]
           \/ evm' = [evm EXCEPT ![c].call = "idle"]
    /\ UNCHANGED <<pollerVars, receivers, resolveVars, probe, wire>>

\* the chain mines one of the account's transactions of the next nonce; the others
\* of that nonce can no longer be mined
Mine(c) ==
    /\ \E tx \in evm[c].pending :
          /\ tx.nonce = evm[c].mined
          /\ evm' = [evm EXCEPT ![c].mined = @ + 1,
                                ![c].pending = {u \in @ : u.nonce > evm[c].mined},
                                ![c].receipts = @ \cup {tx.id}]
    /\ UNCHANGED <<pollerVars, receivers, resolveVars, probe, wire>>

\* ethereum.py 103, 152: wait_for_transaction_receipt returns the receipt
WaitReceipt(c) ==
    /\ evm[c].call = "wait" /\ evm[c].id \in evm[c].receipts
    /\ evm' = [evm EXCEPT ![c].call = "idle"]
    /\ UNCHANGED <<pollerVars, receivers, resolveVars, probe, wire>>

\* ethereum.py 103, 152: wait_for_transaction_receipt is called without a timeout
\* argument and raises once its default time is up; the call ends (108-110, 158-160)
WaitTimeout(c) ==
    /\ evm[c].call = "wait" /\ evm[c].id \notin evm[c].receipts
    /\ evm' = [evm EXCEPT ![c].call = "idle"]
    /\ UNCHANGED <<pollerVars, receivers, resolveVars, probe, wire>>

InitNonce == InitPoller({}, {}) /\ InitResolve /\ probe = NoProbe /\ wire = NoWire /\ evm = NoEvm

NextNonce ==
    \E c \in NonceChains :
        \/ \E k \in {"claim", "intron"} : CallStart(c, k)
        \/ GetNonce(c) \/ SendRaw(c) \/ Mine(c) \/ WaitReceipt(c) \/ WaitTimeout(c)

SpecNonce == InitNonce /\ [][NextNonce]_vars

\* C39: on each chain the network holds at most one unmined transaction of the
\* relayer account, and no two transactions it took from the relayer were built
\* on the same nonce.
C39_OneTransactionInFlight ==
    \A c \in NonceChains :
        /\ Cardinality(evm[c].pending) <= 1
        /\ \A t, u \in evm[c].sent : t.nonce = u.nonce => t = u

(***************************************************************************)
(* The poller of a fresh deployment under fairness: every step of the      *)
(* poller and of the processor is eventually taken (the event loop runs    *)
(* the task, every await returns, every sleep ends), and a head read and a *)
(* watermark write that are tried again and again eventually succeed.      *)
(***************************************************************************)
NextLive == \E c \in ChainNames : Poller(c) \/ Processor(c) \/ HeadAdvance(c)

HeadIsRead(c) == ReadHead(c) /\ current_block'[c] = head[c]
WatermarkIsWritten(c) == SaveLastBlock(c) /\ persisted'[c] = to_block[c]

Fairness ==
    \A c \in ChainNames :
        /\ WF_vars(Poller(c))
        /\ WF_vars(Processor(c))
        /\ SF_vars(HeadIsRead(c))
        /\ SF_vars(WatermarkIsWritten(c))

SpecLive == Init /\ [][NextLive]_vars /\ Fairness

\* C40: every block number the head of a chain reaches above the block the
\* chain's poller started from is eventually covered by the chain's persisted
\* watermark.
C40_WatermarkCatchesUp ==
    \A c \in ChainNames : \A h \in 1..MaxHead :
        (c \in config_chains /\ pc[c] # "boot" /\ last_block[c] < h /\ head[c] >= h)
            ~> (persisted[c] >= h)

====
